---------------------------- MODULE Spec2Model ----------------------------
(***************************************************************************)
(* Ingestion-and-scoring pipeline of alea-signal: the worker's runSync     *)
(* (fetch, normalize, reference statistics, batched concurrent writes,     *)
(* run status bookkeeping, cleanup), the durable store it writes, the      *)
(* /api/sync caller and the analyst's annotation PATCH endpoint.           *)
(*                                                                         *)
(* Every await of the source is a step of its own: a store call or an HTTP *)
(* request either succeeds or rejects.  Dates are readings of a logical    *)
(* clock.                                                                  *)
(***************************************************************************)
EXTENDS Integers, Sequences, FiniteSets, TLC

\* ---------------------------------------------------------------- bounds
MaxRuns == 2
MaxPatches == 1
\* rejections (store calls, fetch) injected over a behaviour
MaxFaults == 2
\* runSync invocations in progress at once, over all callers
MaxActive == 2
\* Longest enumerated working set of the reference statistics.
MaxWorkingSet == 3
\* Most parents of an enumerated fetched catalog.
MaxParents == 2
\* Most entries of an enumerated tags array.
MaxTags == 2

\* ------------------------------------------------------ program constants
MAX_RETRIES == 3
PAGE_SIZE == 100
BACKOFF_BASE_MS == 400
PAGE_DELAY_MS == 200
DEFAULT_BATCH_SIZE == 25
DEFAULT_REF_PERCENTILE == 90

\* null / undefined: "null" for a string, the empty sequence for any other value.
Null == "null"
None == <<>>
Some(x) == <<x>>

Min(a, b) == IF a < b THEN a ELSE b
Max(a, b) == IF a > b THEN a ELSE b

RECURSIVE Pow2(_)
Pow2(n) == IF n = 0 THEN 1 ELSE 2 * Pow2(n - 1)

\* ------------------------------------------------------------- errors
\* An Error object, reduced to what its message says.
Err(type, status, offset) == [type |-> type, status |-> status, offset |-> offset]
NoError == Err("none", 0, 0)
GammaError(status, offset) == Err("Gamma API error", status, offset)
StoreError(op) == Err(op, 0, 0)

\* ----------------------------------------------------- upstream payloads
\* A JSON value: null, a number n, or a string s.  A string that
\* Date can parse carries the instant it denotes in n and "iso" in s; every
\* other non-empty string is text that is neither a number nor a date.
JNull == [t |-> "null", n |-> 0, s |-> ""]
JNum(n) == [t |-> "number", n |-> n, s |-> ""]
JStr(str) == [t |-> "string", n |-> 0, s |-> str]
JDate(instant) == [t |-> "string", n |-> instant, s |-> "iso"]
JUndefined == [t |-> "undefined", n |-> 0, s |-> ""]

\* The object without keys.
NoFields == [key \in {} |-> JNull]

\* A JSON object is a function from its keys to their values: value?.key
get(value, key) == IF key \in DOMAIN value THEN value[key] ELSE JUndefined

isNullish(j) == j.t \in {"null", "undefined"}

\* a ?? b ?? ... : the first value that is neither null nor undefined
RECURSIVE coalesce(_)
coalesce(values) ==
  IF values = <<>> THEN JNull
  ELSE IF ~isNullish(Head(values)) THEN Head(values)
  ELSE coalesce(Tail(values))

\* Boolean(value)
truthyJ(j) ==
  CASE j.t = "string" -> j.s # ""
    [] j.t = "number" -> j.n # 0
    [] OTHER -> FALSE

\* String(value)
stringOf(j) ==
  CASE j.t = "string" -> j.s
    [] j.t = "number" -> ToString(j.n)
    [] j.t = "null" -> "null"
    [] OTHER -> "undefined"

\* safeNumber: None for null, undefined and whatever Number() does not turn
\* into a finite number; Number("") is 0.
safeNumber(j) ==
  CASE j.t = "number" -> Some(j.n)
    [] j.t = "string" /\ j.s = "" -> Some(0)
    [] OTHER -> None

RECURSIVE pickFirstNumber(_)
pickFirstNumber(values) ==
  IF values = <<>> THEN None
  ELSE IF safeNumber(Head(values)) # None THEN safeNumber(Head(values))
  ELSE pickFirstNumber(Tail(values))

\* parseDate: None when the value is falsy or no date.
parseDate(j) ==
  IF ~truthyJ(j) THEN None
  ELSE IF j.t = "number" THEN Some(j.n)
  ELSE IF j.s = "iso" THEN Some(j.n)
  ELSE None

hasOwn(value, key) == key \in DOMAIN value
hasAnyField(value, keys) == \E key \in keys : hasOwn(value, key)

\* String.prototype.toLowerCase on the tag names in use
toLowerCase(str) ==
  CASE str = "Politics" -> "politics"
    [] str = "POLITICS" -> "politics"
    [] str = "Sports" -> "sports"
    [] OTHER -> str

\* A tag entry of the payload: a bare string, {slug, name}, {tag: {slug, name}},
\* or anything else; slug is its text.
TagEntry(shape, slug) == [shape |-> shape, slug |-> slug]

normalizeTags(tags) ==
  LET known == SelectSeq(tags, LAMBDA tag : \/ tag.shape = "string"
                                            \/ tag.shape \in {"slug", "nested"}
                                               /\ tag.slug # "")
  IN [i \in 1..Len(known) |-> toLowerCase(known[i].slug)]

\* ------------------------------------------------- the upstream catalog
\* A raw child record: its native id (or Null) and its three metrics.
RawMarket(id, liq, vol, oi) ==
  [id |-> IF id = Null THEN JNull ELSE JStr(id),
   liquidity |-> JNum(liq), volume24h |-> JNum(vol), openInterest |-> JNum(oi)]

RawEvent(n, ms) == [id |-> JStr("e" \o ToString(n)), markets |-> ms]

EventsWithoutMarkets(from, to) == [i \in 1..(to - from + 1) |-> RawEvent(from + i - 1, <<>>)]

\* Two parents: one with two children (liquidity 1000 and 50), one with none.
CatalogSmall ==
  << RawEvent(1, << RawMarket("a", 1000, 20, 5), RawMarket(Null, 50, 0, 0) >>),
     RawEvent(2, <<>>) >>

\* Exactly one full page: the second request returns an empty page.
CatalogFullPage ==
  << RawEvent(1, << RawMarket("a", 1000, 20, 5), RawMarket("b", 50, 30, 0),
                    RawMarket("c", 50, 40, 0) >>) >>
  \o EventsWithoutMarkets(2, PAGE_SIZE)

\* A full page followed by a short page.
CatalogTwoPages ==
  << RawEvent(1, << RawMarket("a", 1000, 20, 5), RawMarket("b", 50, 30, 0) >>) >>
  \o EventsWithoutMarkets(2, PAGE_SIZE)
  \o << RawEvent(PAGE_SIZE + 1, << RawMarket("c", 70, 0, 9) >>) >>
  \o EventsWithoutMarkets(PAGE_SIZE + 2, PAGE_SIZE + 3)

\* What upstream serves under each catalog name.
CatalogOf(name) ==
  CASE name = "empty" -> <<>>
    [] name = "small" -> CatalogSmall
    [] name = "fullPage" -> CatalogFullPage
    [] name = "twoPages" -> CatalogTwoPages

\* GET .../events?limit=100&offset=o : the slice of the catalog at offset o.
UpstreamPage(cat, o) == SubSeq(cat, o + 1, Min(o + PAGE_SIZE, Len(cat)))

\* ------------------------------------------------------------ config
FileConfig(batchSize, marketLimit) ==
  [sync_batch_size |-> batchSize, sync_market_limit |-> marketLimit,
   ref_percentile |-> None]

\* The deployments explored: what upstream serves, the config file and the
\* ScoreConfig row (id 1: absent, or an override of the percentile).  The
\* config file is parsed and used as is, so sync_batch_size can be any number
\* the operator wrote, 0 included.
Scenarios ==
  { [catalog |-> "empty", fileConfig |-> FileConfig(None, None), dbConfig |-> None],
    [catalog |-> "small", fileConfig |-> FileConfig(None, None), dbConfig |-> None],
    [catalog |-> "small", fileConfig |-> FileConfig(Some(0), None), dbConfig |-> None],
    [catalog |-> "fullPage", fileConfig |-> FileConfig(Some(2), None),
     dbConfig |-> Some([refPercentile |-> 50])],
    [catalog |-> "twoPages", fileConfig |-> FileConfig(Some(1), Some(2)),
     dbConfig |-> None] }

\* The key of the merged config with the row's value when the row has a usable
\* value under rowKey, else nothing.  A column that is null, or of the wrong
\* type, is a key the row does not have.
overrideOf(row, rowKey, fileKey) ==
  IF rowKey \in DOMAIN row THEN [k \in {fileKey} |-> row[rowKey]] ELSE NoFields

\* mergeScoreConfig: a group of tunables the row has replaces the file's group.
mergeScoreConfig(fileConfig, dbConfig) ==
  IF dbConfig = None THEN fileConfig
  ELSE LET row == dbConfig[1]
       IN overrideOf(row, "weights", "weights") @@ overrideOf(row, "penalties", "penalties")
          @@ overrideOf(row, "flagsThresholds", "flags_thresholds")
          @@ (IF "refPercentile" \in DOMAIN row
              THEN [ref_percentile |-> Some(row.refPercentile)] ELSE NoFields)
          @@ overrideOf(row, "memoMaxDays", "memo_max_days")
          @@ overrideOf(row, "scoreVersion", "score_version")
          @@ fileConfig

\* ------------------------------------------------------- normalization
LiquidityKeys == <<"liquidity", "liquidityUsd">>
Volume24hKeys == <<"volume24h", "volume24hr", "volume24Hour">>
openInterestKeys ==
  <<"openInterest", "open_interest", "openInterestUsd", "open_interest_usd",
    "openInterestUSD">>
resolutionSourceKeys == <<"resolutionSource", "resolution_source">>
EndDateKeys == <<"endDate", "endTime", "end_time">>

\* The values of an object under a list of keys, in order.
valuesAt(value, keys) == [i \in 1..Len(keys) |-> get(value, keys[i])]
keySet(keys) == {keys[i] : i \in 1..Len(keys)}

\* event.markets when it is an array, else the empty array
eventMarketsOf(event) == IF hasOwn(event, "markets") THEN event.markets ELSE <<>>

\* config.key ?? fallback, for a config given as a record of the keys it has
cfg(config, key, fallback) == IF key \in DOMAIN config THEN config[key] ELSE fallback

\* buildAllowedTagSet: the lower-cased tags of the allowed sectors
buildAllowedTagSet(config) ==
  LET sectors == cfg(config, "allowed_sectors", <<>>)
      map == cfg(config, "sector_map", <<>>)
  IN UNION { IF sectors[i] \in DOMAIN map
             THEN {toLowerCase(map[sectors[i]][k]) : k \in 1..Len(map[sectors[i]])}
             ELSE {} : i \in 1..Len(sectors) }

buildExcludeTagSet(config) ==
  LET tags == cfg(config, "exclude_tags", <<>>)
  IN {toLowerCase(tags[i]) : i \in 1..Len(tags)}

marketId(market, event, index) ==
  LET native == coalesce(<<get(market, "id"), get(market, "marketId"), get(market, "slug")>>)
      parent == coalesce(<<get(event, "id"), JStr("event")>>)
  IN IF ~isNullish(native) THEN stringOf(native)
     ELSE stringOf(parent) \o ":" \o ToString(index)

\* buildMarketRecord: index is the 0-based position within the parent.
buildMarketRecord(market, event, index, config, allowedTags, excludeTags) ==
  LET tags == normalizeTags(IF hasOwn(market, "tags") THEN market.tags
                            ELSE IF hasOwn(event, "tags") THEN event.tags ELSE <<>>)
      tagSlugs == {tags[i] : i \in 1..Len(tags)}
      liquidity == pickFirstNumber(valuesAt(market, LiquidityKeys)
                                   \o <<get(event, "liquidity"), JNum(0)>>)
      volume24h == pickFirstNumber(valuesAt(market, Volume24hKeys)
                                   \o <<get(event, "volume24h"), get(event, "volume24hr"),
                                        JNum(0)>>)
      openInterest == pickFirstNumber(valuesAt(market, openInterestKeys)
                                      \o <<get(event, "openInterest"), JNum(0)>>)
  IN [id |-> marketId(market, event, index),
      eventId |-> IF truthyJ(get(event, "id")) THEN stringOf(get(event, "id")) ELSE Null,
      resolutionSource |-> coalesce(<<get(market, "resolutionSource"),
                                      get(event, "resolutionSource"),
                                      get(event, "resolution_source")>>),
      endDate |-> parseDate(coalesce(valuesAt(market, EndDateKeys)
                                     \o valuesAt(event, EndDateKeys)
                                     \o <<get(event, "closeTime"), get(event, "close_time")>>)),
      liquidity |-> IF liquidity = None THEN 0 ELSE liquidity[1],
      volume24h |-> IF volume24h = None THEN 0 ELSE volume24h[1],
      openInterest |-> IF openInterest = None THEN 0 ELSE openInterest[1],
      tags |-> tags,
      restricted |-> FALSE,
      isExcluded |-> tagSlugs \cap excludeTags # {},
      hasAleaTag |-> tagSlugs \cap allowedTags # {},
      hasOpenInterestField |-> hasAnyField(market, keySet(openInterestKeys))
                               \/ hasAnyField(event, keySet(openInterestKeys)),
      hasResolutionSourceField |-> hasAnyField(market, keySet(resolutionSourceKeys))
                                   \/ hasAnyField(event, keySet(resolutionSourceKeys))]

\* The records of the parents, in order (parents are known to carry children).
RECURSIVE normalizeParents(_, _)
normalizeParents(evs, config) ==
  IF evs = <<>> THEN <<>>
  ELSE LET event == Head(evs)
       IN [i \in 1..Len(event.markets) |->
             buildMarketRecord(event.markets[i], event, i - 1, config,
                               buildAllowedTagSet(config), buildExcludeTagSet(config))]
          \o normalizeParents(Tail(evs), config)

\* events.forEach: a parent without children contributes nothing.
normalizeEvents(evs, config) ==
  normalizeParents(SelectSeq(evs, LAMBDA event : Len(eventMarketsOf(event)) # 0), config)

\* The comparator of the size-cap sort: negative when a sorts before b.
compareMarketsByLiquidity(a, b) == b.liquidity - a.liquidity

compareMarkets(a, b) ==
  IF b.liquidity - a.liquidity # 0 THEN b.liquidity - a.liquidity
  ELSE IF b.volume24h - a.volume24h # 0 THEN b.volume24h - a.volume24h
  ELSE b.openInterest - a.openInterest

\* The comparator of percentile's sort.
compareNumbers(a, b) == a - b

\* The comparator function handed to Array.prototype.sort, by name.
compare(comparator, a, b) ==
  IF comparator = "markets" THEN compareMarkets(a, b) ELSE compareNumbers(a, b)

\* Array.prototype.sort is stable: x goes after every element that does not
\* sort after it.
RECURSIVE insertSorted(_, _, _)
insertSorted(comparator, s, x) ==
  IF s = <<>> THEN <<x>>
  ELSE IF compare(comparator, Head(s), x) <= 0
       THEN <<Head(s)>> \o insertSorted(comparator, Tail(s), x)
  ELSE <<x>> \o s

RECURSIVE sortBy(_, _)
sortBy(comparator, s) ==
  IF s = <<>> THEN <<>>
  ELSE insertSorted(comparator, sortBy(comparator, SubSeq(s, 1, Len(s) - 1)), s[Len(s)])

marketsToProcess(markets, config) ==
  LET marketLimit == config.sync_market_limit
  IN IF marketLimit # None /\ marketLimit[1] > 0 /\ Len(markets) > marketLimit[1]
     THEN SubSeq(sortBy("markets", markets), 1, marketLimit[1])
     ELSE markets

\* ------------------------------------------------ reference statistics
positiveValues(s) == SelectSeq(s, LAMBDA v : v > 0)

\* p is the percentile in hundredths (0.9 is 90).
percentileRoundsUp(values, p) ==
  IF Len(values) = 0 THEN 0
  ELSE LET sorted == sortBy("numbers", values)
           idx == Max(0, Min(Len(sorted) - 1, (p * (Len(sorted) - 1) + 99) \div 100))
       IN sorted[idx + 1]

percentile(values, p) ==
  IF Len(values) = 0 THEN 0
  ELSE LET sorted == sortBy("numbers", values)
           idx == Max(0, Min(Len(sorted) - 1, (p * (Len(sorted) - 1)) \div 100))
       IN sorted[idx + 1]

refPercentileOf(config) ==
  IF config.ref_percentile = None THEN DEFAULT_REF_PERCENTILE ELSE config.ref_percentile[1]

computeRefs(ms, config) ==
  [liquidity |-> percentile(positiveValues([i \in 1..Len(ms) |-> ms[i].liquidity]),
                            refPercentileOf(config)),
   volume24h |-> percentile(positiveValues([i \in 1..Len(ms) |-> ms[i].volume24h]),
                            refPercentileOf(config)),
   openInterest |-> percentile(positiveValues([i \in 1..Len(ms) |-> ms[i].openInterest]),
                               refPercentileOf(config))]

batchSizeOf(config) ==
  IF config.sync_batch_size = None THEN DEFAULT_BATCH_SIZE ELSE config.sync_batch_size[1]

\* ------------------------------------------------------------- scoring
\* Scores are held in sixtieths of a point: the fractions 0.6, 0.4, 0.5, 0.3,
\* 0.2 and 0.1 of an integer weight, and halves and thirds of those, are
\* integers.
SCALE == 60
\* The readings of Date and the end dates are in hours.
HOURS_PER_DAY == 24

\* A double: finite (v), NaN, Infinity or -Infinity.  Sums of finite values
\* stay finite here (no overflow).
Fin(v) == [k |-> "fin", v |-> v]
NaN == [k |-> "nan", v |-> 0]
PosInf == [k |-> "inf", v |-> 0]
NegInf == [k |-> "-inf", v |-> 0]

plus(a, b) ==
  IF a.k = "nan" \/ b.k = "nan" THEN NaN
  ELSE IF a.k = "fin" /\ b.k = "fin" THEN Fin(a.v + b.v)
  ELSE IF a.k = "fin" THEN b
  ELSE IF b.k = "fin" THEN a
  ELSE IF a.k = b.k THEN a
  ELSE NaN

\* a <= b for doubles that are not NaN
leq(a, b) ==
  \/ a.k = "-inf"
  \/ b.k = "inf"
  \/ a.k = "fin" /\ b.k = "fin" /\ a.v <= b.v

mathMin(a, b) == IF a.k = "nan" \/ b.k = "nan" THEN NaN ELSE IF leq(a, b) THEN a ELSE b
mathMax(a, b) == IF a.k = "nan" \/ b.k = "nan" THEN NaN ELSE IF leq(a, b) THEN b ELSE a

clamp(value, min, max) == mathMax(min, mathMin(max, value))

\* A positive double below 2^-53 (1e-17, say): 1 + Tiny rounds to 1.  The
\* other metric values used are 10^k - 1, whose log10(1 + value) is k.
Tiny == 1

\* Math.log10(1 + value) for a positive value
log10OnePlus(value) ==
  CASE value = Tiny -> 0
    [] value = 9 -> 1
    [] value = 99 -> 2
    [] value = 999 -> 3

\* maxScore * (Math.log10(1 + value) / Math.log10(1 + ref))
scaledScore(value, ref, maxScore) ==
  LET numerator == log10OnePlus(value)
      denominator == log10OnePlus(ref)
  IN IF denominator # 0 THEN Fin((maxScore * numerator) \div denominator)
     ELSE IF numerator = 0 THEN NaN            \* 0 / 0
     ELSE IF maxScore > 0 THEN PosInf          \* maxScore * Infinity
     ELSE IF maxScore < 0 THEN NegInf
     ELSE NaN                                  \* 0 * Infinity

logScore(value, ref, maxScore) ==
  IF ref <= 0 \/ value <= 0 THEN Fin(0)
  ELSE clamp(scaledScore(value, ref, maxScore), Fin(0), Fin(maxScore))

\* Math.ceil(a / b) for b > 0
ceilDiv(a, b) == -((-a) \div b)

\* daysToExpiry: dateNow is the reading of Date.now()
daysToExpiryOfEpoch(endDate, dateNow) ==
  Some(ceilDiv((IF endDate = None THEN 0 ELSE endDate[1]) - dateNow, HOURS_PER_DAY))

daysToExpiry(endDate, dateNow) ==
  IF endDate = None THEN None
  ELSE Some(ceilDiv(endDate[1] - dateNow, HOURS_PER_DAY))

DefaultWeights ==
  [resolutionIntegrity |-> 30, liquidityMicrostructure |-> 25, modelability |-> 20,
   participationQuality |-> 15, strategicFit |-> 10]
DefaultPenalties == [restricted |-> -10, missing_tags |-> -5]
DefaultThresholds == [min_liquidity |-> 0, min_volume24h |-> 0, min_open_interest |-> 0]

\* { ...defaults, ...overrides }
spread(defaults, overrides) == overrides @@ defaults

flagIf(condition, flag) == IF condition THEN <<flag>> ELSE <<>>
boolNumber(b) == IF b THEN 1 ELSE 0

penaltyOfRestrictedOnly(market, penalties, tooShort) ==
  IF market.restricted THEN penalties.restricted ELSE 0

\* let penalty = 0; ... penalty += ...
penaltyOf(market, penalties, tooShort) ==
  (IF market.restricted THEN penalties.restricted ELSE 0)
  + (IF Len(market.tags) = 0 THEN penalties.missing_tags ELSE 0)
  + (IF tooShort THEN cfg(penalties, "too_short_horizon", 0) ELSE 0)

scoreMarket(market, config, refsValue, dateNow) ==
  LET weights == spread(DefaultWeights, cfg(config, "weights", <<>>))
      penalties == spread(DefaultPenalties, cfg(config, "penalties", <<>>))
      thresholds == spread(DefaultThresholds, cfg(config, "flags_thresholds", <<>>))
      minDaysToExpiry == cfg(config, "min_days_to_expiry", 0)
      hasResolutionSource == truthyJ(market.resolutionSource)
      hasEndDate == market.endDate # None
      tagsPresent == Len(market.tags) > 0
      days == daysToExpiry(market.endDate, dateNow)
      tooShort == days # None /\ days[1] < minDaysToExpiry
      resolutionIntegrity ==
        weights.resolutionIntegrity
        * (boolNumber(hasResolutionSource) * 36 + boolNumber(hasEndDate) * 24)
      liqScore == logScore(market.liquidity, refsValue.liquidity,
                           weights.liquidityMicrostructure * 36)
      volScore == logScore(market.volume24h, refsValue.volume24h,
                           weights.liquidityMicrostructure * 18)
      oiScore == logScore(market.openInterest, refsValue.openInterest,
                          weights.liquidityMicrostructure * 6)
      liquidityMicrostructure ==
        clamp(plus(plus(liqScore, volScore), oiScore), Fin(0),
              Fin(weights.liquidityMicrostructure * SCALE))
      modelability ==
        weights.modelability
        * (boolNumber(tagsPresent) * 30 + boolNumber(hasResolutionSource) * 18
           + boolNumber(hasEndDate) * 12)
      participationValue ==
        IF market.openInterest > 0 THEN market.openInterest ELSE market.volume24h
      participationRef ==
        IF market.openInterest > 0 THEN refsValue.openInterest ELSE refsValue.volume24h
      participationQuality ==
        logScore(participationValue, participationRef, weights.participationQuality * SCALE)
      strategicFit == IF market.hasAleaTag THEN weights.strategicFit * SCALE ELSE 0
      flags ==
        flagIf(market.hasResolutionSourceField /\ ~hasResolutionSource,
               "missing_resolution_source")
        \o flagIf(~hasEndDate, "missing_end_date")
        \o flagIf(market.liquidity < thresholds.min_liquidity, "low_liquidity")
        \o flagIf(market.volume24h < thresholds.min_volume24h
                  /\ market.liquidity < thresholds.min_liquidity, "low_volume24h")
        \o flagIf(market.hasOpenInterestField
                  /\ market.openInterest < thresholds.min_open_interest, "weak_open_interest")
        \o flagIf(tooShort, "too_short_horizon")
        \o flagIf(~tagsPresent, "missing_tags")
        \o flagIf(market.restricted, "restricted_market")
        \o flagIf(tagsPresent /\ ~market.hasAleaTag, "not_in_alea_sectors")
      penalty == penaltyOf(market, penalties, tooShort) * SCALE
  IN [totalScore |->
        clamp(plus(plus(plus(plus(plus(Fin(resolutionIntegrity), liquidityMicrostructure),
                                  Fin(modelability)),
                             participationQuality),
                        Fin(strategicFit)),
                   Fin(penalty)),
              Fin(0), Fin(100 * SCALE)),
      components |->
        [resolutionIntegrity |-> resolutionIntegrity,
         liquidityMicrostructure |-> liquidityMicrostructure,
         modelability |-> modelability,
         participationQuality |-> participationQuality,
         strategicFit |-> strategicFit,
         penalties |-> penalty],
      flags |-> flags]

\* ------------------------------------------------------------- fetcher
shouldRetryOneMore(attempt) == attempt <= MAX_RETRIES

shouldRetry(attempt) == attempt < MAX_RETRIES

backoffDelay(attempt) == BACKOFF_BASE_MS * Pow2(attempt)

\* The page a response body denotes: a bare array, or the array under
\* "data" or "events"; anything else is the empty page.
PayloadShapes == {"array", "data", "events", "other"}
batchOfPayload(shape, page) == IF shape = "other" THEN <<>> ELSE page

pageIsLastWhenFull(batch) == Len(batch) <= PAGE_SIZE

pageIsLast(batch) == Len(batch) < PAGE_SIZE

\* ------------------------------------------------------ the store rows
MarketIds == {"a", "b", "c", "e1:1", "zz"}

NoStatusRow ==
  [exists |-> FALSE, lastAttemptedSyncAt |-> None, lastSuccessfulSyncAt |-> None,
   lastError |-> None, lastStats |-> None, lastRefs |-> None]

\* The fields of the row that only a successful run writes.
successFields(row) ==
  [lastSuccessfulSyncAt |-> row.lastSuccessfulSyncAt, lastStats |-> row.lastStats,
   lastRefs |-> row.lastRefs]

attemptStatusUpsertKeepsError(row, startedAtValue) ==
  [row EXCEPT !.exists = TRUE, !.lastAttemptedSyncAt = Some(startedAtValue)]

\* syncStatus.upsert of the run's start
attemptStatusUpsert(row, startedAtValue) ==
  [row EXCEPT !.exists = TRUE,
              !.lastAttemptedSyncAt = Some(startedAtValue),
              !.lastError = None]

successStatusUpdateKeepsError(row, nowValue, eventCount, marketCount, refsValue) ==
  [row EXCEPT !.lastSuccessfulSyncAt = Some(nowValue),
              !.lastStats = Some([events |-> eventCount, markets |-> marketCount]),
              !.lastRefs = Some(refsValue)]

\* syncStatus.update of the success path
successStatusUpdate(row, nowValue, eventCount, marketCount, refsValue) ==
  [row EXCEPT !.lastSuccessfulSyncAt = Some(nowValue),
              !.lastError = None,
              !.lastStats = Some([events |-> eventCount, markets |-> marketCount]),
              !.lastRefs = Some(refsValue)]

\* syncStatus.update of the catch block
errorStatusUpdate(row, error) == [row EXCEPT !.lastError = Some(error)]

marketRow(market, nowValue) ==
  [eventId |-> market.eventId, liquidity |-> market.liquidity,
   volume24h |-> market.volume24h, openInterest |-> market.openInterest,
   lastSeenAt |-> nowValue]

scoreRow(refsValue, nowValue) == [refs |-> refsValue, computedAt |-> nowValue]

historyRow(market, refsValue, nowValue) ==
  [marketId |-> market.id, refs |-> refsValue, computedAt |-> nowValue]

DefaultAnnotation == [state |-> "NEW", notes |-> Null, owner |-> Null]

syncAnnotationReset(existing) == Some(DefaultAnnotation)

\* annotation.upsert({update: {}, create: {marketId}}) of runSync
syncAnnotationUpsert(existing) ==
  IF existing = None THEN Some(DefaultAnnotation) ELSE existing

\* ----------------------------------------------- the annotation endpoint
ALLOWED_STATES == {"NEW", "ON_DECK", "ACTIVE", "ARCHIVE"}

toUpperCase(str) ==
  CASE str = "active" -> "ACTIVE"
    [] str = "archive" -> "ARCHIVE"
    [] str = "bogus" -> "BOGUS"
    [] OTHER -> str

\* Request bodies: an absent key is Null.
PatchBodies ==
  { [state |-> "active", notes |-> Null, owner |-> Null],
    [state |-> Null, notes |-> "n1", owner |-> "o1"],
    [state |-> "bogus", notes |-> "n1", owner |-> Null] }

PatchTargets == {"a"}

requestedStateOf(body) == IF body.state # Null THEN toUpperCase(body.state) ELSE Null

patchStateOf(body) ==
  IF requestedStateOf(body) # Null /\ requestedStateOf(body) \in ALLOWED_STATES
  THEN requestedStateOf(body) ELSE Null

\* annotation.upsert of the PATCH handler applied to a row (None when absent)
patchAnnotationUpsert(existing, body) ==
  IF existing = None
  THEN Some([state |-> IF patchStateOf(body) # Null THEN patchStateOf(body) ELSE "NEW",
             notes |-> body.notes, owner |-> body.owner])
  ELSE Some([state |-> IF patchStateOf(body) # Null THEN patchStateOf(body)
                       ELSE existing[1].state,
             notes |-> IF body.notes # Null THEN body.notes ELSE existing[1].notes,
             owner |-> IF body.owner # Null THEN body.owner ELSE existing[1].owner])

\* ------------------------------------------------- the /api/sync caller
NoResponse == [ok |-> FALSE, status |-> 0]
routeResponse(threw) ==
  IF threw THEN [ok |-> FALSE, status |-> 500] ELSE [ok |-> TRUE, status |-> 200]

\* ------------------------------------------ the guards of /api/sync
\* Boolean(value) of a string or null
truthy(str) == str # Null /\ str # ""

\* An Authorization header: None when absent, else <<scheme, rest>>, the text
\* before and after the first space.
bearerTokenOf(authHeader) ==
  IF authHeader # None /\ authHeader[1] = "Bearer" THEN authHeader[2] ELSE Null

isVercelCronOf(env, request) == env.VERCEL = "1" /\ request.cron = "1"

isAuthorizedAnyToken(env, request) ==
  \/ request.token # Null
  \/ bearerTokenOf(request.authorization) # Null
  \/ isVercelCronOf(env, request)

\* isAuthorized of the route
isAuthorized(env, request) ==
  IF truthy(env.SYNC_TOKEN)
     /\ (request.token = env.SYNC_TOKEN
         \/ bearerTokenOf(request.authorization) = env.SYNC_TOKEN)
  THEN TRUE
  ELSE isVercelCronOf(env, request)

\* The credentials BASIC_AUTH_USER and BASIC_AUTH_PASS denote, encoded.
BasicCredentials == "admin:pw"

\* middleware for the path /api/sync: TRUE when the request is passed on,
\* FALSE when it is answered 401.
middleware(env, request) ==
  IF truthy(env.SYNC_TOKEN)
     /\ (bearerTokenOf(request.authorization) = env.SYNC_TOKEN
         \/ request.token = env.SYNC_TOKEN)
  THEN TRUE
  ELSE IF ~truthy(env.SYNC_TOKEN) /\ isVercelCronOf(env, request) THEN TRUE
  ELSE IF ~env.basicAuth THEN TRUE
  ELSE IF request.authorization = None \/ request.authorization[1] # "Basic" THEN FALSE
  ELSE request.authorization[2] = BasicCredentials

\* Requests to /api/sync: the token query parameter, the Authorization
\* header and the x-vercel-cron header.
SyncRequests ==
  [token : {Null, "secret", "wrong"},
   authorization : {None, <<"Bearer", "secret">>, <<"Bearer", "wrong">>, <<"Bearer", "">>,
                    <<"Basic", "admin:pw">>, <<"Basic", "bad">>},
   cron : {Null, "1"}]

\* Deployments: SYNC_TOKEN, VERCEL, and whether the basic-auth pair is set.
Deployments ==
  [SYNC_TOKEN : {Null, "", "secret"}, VERCEL : {Null, "1"}, basicAuth : BOOLEAN]

NoRuns == [route |-> 0, snapshot |-> 0, script |-> 0]
NoRequest == [request |-> [token |-> Null, authorization |-> None, cron |-> Null],
              status |-> 0, started |-> FALSE]
NoCache == [present |-> FALSE, fresh |-> FALSE, kalshi |-> FALSE]

\* What a settled runSync hands to getRuntimeSnapshot.
SnapshotOutcomes == {"markets", "kalshiMarkets", "noMarkets", "rejects"}

\* ================================================================ state
VARIABLES
  catalog,        \* the name of the catalog upstream serves
  fileConfig,     \* config/app-config.json
  dbConfig,       \* the ScoreConfig row
  databaseUrl,    \* TRUE when DATABASE_URL (or an alias) is set
  clock,          \* the next reading of new Date()
  runs,           \* runSync invocations so far
  patches,        \* PATCH requests so far
  syncStatus,     \* the SyncStatus row (id 1)
  marketTable,    \* Market rows by id
  scoreTable,     \* Score rows by marketId
  scoreHistory,   \* ScoreHistory rows in insertion order
  annotation,     \* Annotation rows by marketId
  pc,             \* where the run is
  startedAt, config, clientCreated, clientOpen, poolOpen,
  offset, attempt, events,
  markets,        \* marketsToProcess
  refs, now, index, upserted,
  inflight,       \* per record of the working set: the write it awaits
  caught,         \* the error the catch block received
  outcome,        \* how runSync settled: "none", "returned", "threw"
  thrown,         \* the error runSync rejected with
  result,         \* the value runSync resolved with
  response,       \* what the /api/sync route answered
  pageRequests,   \* requests issued for the current page URL
  sleeps,         \* backoff delays waited for the current page URL
  pageLog,        \* per page received by fetchAllEvents: offset, length, pause
  fetchIssued,    \* TRUE once this run has issued an upstream request
  recordWrites,   \* record-table writes completed by this run
  statusAtStart,  \* the success fields of the SyncStatus row as this run found them
  idsAtStart,     \* the ids of the Market and of the Score rows as this run found them
  analyst,        \* per market: the annotation fields as the analyst last set them
  patchResponse,  \* status of the last PATCH
  patchedInRun,   \* the value of runs when a PATCH last changed an annotation
  faults,         \* rejections injected so far
  deployment,     \* the environment of the web app: SYNC_TOKEN, VERCEL, basic auth
  activeRuns,     \* per caller: its runSync invocations that have not settled
  lastRequest,    \* the last request to /api/sync and how it was answered
  inFlight,       \* runtime-sync-cache: TRUE while its inFlight promise is set
  cache,          \* runtime-sync-cache: the "snapshot" entry of its cache
  lastSnapshot,   \* what the last getRuntimeSnapshot call did, or how its run settled
  applied,        \* the last application of a pure function: its arguments and result
  overlap         \* two overlapping runSync invocations: where each is, what it holds

envVars == <<catalog, fileConfig, dbConfig, databaseUrl>>
storeVars == <<syncStatus, marketTable, scoreTable, scoreHistory, annotation>>
fetchVars == <<offset, attempt, events, pageRequests, sleeps, pageLog, fetchIssued>>
writeVars == <<markets, refs, now, index, upserted, inflight, recordWrites>>
endVars == <<caught, outcome, thrown, result, response>>
connVars == <<clientCreated, clientOpen, poolOpen>>
patchVars == <<patches, analyst, patchResponse, patchedInRun>>
callerVars == <<deployment, activeRuns, lastRequest, inFlight, cache, lastSnapshot>>
runVars == <<envVars, storeVars, fetchVars, writeVars, endVars, connVars, patchVars,
             clock, runs, pc, startedAt, config, statusAtStart, idsAtStart, faults>>
vars == <<runVars, callerVars, applied, overlap>>

\* A call may be made to reject while the budget lasts.
MayFault == faults < MaxFaults
Fault == faults' = faults + 1

NoRefs == [liquidity |-> 0, volume24h |-> 0, openInterest |-> 0]
NoResult == [events |-> 0, markets |-> 0, refs |-> NoRefs, startedAt |-> 0]

Stages == <<"market", "score", "history", "annotation">>
StageSet == {Stages[i] : i \in 1..Len(Stages)}
nextStageSkipsHistory(stage) ==
  CASE stage = "market" -> "score"
    [] stage = "score" -> "annotation"
    [] stage = "history" -> "annotation"
    [] stage = "annotation" -> "done"

\* The order of the four awaited writes of a record.
nextStage(stage) ==
  CASE stage = "market" -> "score"
    [] stage = "score" -> "history"
    [] stage = "history" -> "annotation"
    [] stage = "annotation" -> "done"

InFlightRecords == {i \in DOMAIN inflight : inflight[i] \in StageSet}

\* No request has reached the web app.
InitCallers ==
  /\ activeRuns = NoRuns
  /\ lastRequest = NoRequest
  /\ inFlight = FALSE
  /\ cache = NoCache
  /\ lastSnapshot = "none"

\* The store is empty and runSync has not been invoked.
InitRun ==
  /\ clock = 1
  /\ runs = 0
  /\ patches = 0
  /\ syncStatus = NoStatusRow
  /\ marketTable = [m \in MarketIds |-> None]
  /\ scoreTable = [m \in MarketIds |-> None]
  /\ scoreHistory = <<>>
  /\ annotation = [m \in MarketIds |-> None]
  /\ pc = "idle"
  /\ startedAt = 0
  /\ config = fileConfig
  /\ clientCreated = FALSE
  /\ clientOpen = FALSE
  /\ poolOpen = FALSE
  /\ offset = 0
  /\ attempt = 0
  /\ events = <<>>
  /\ markets = <<>>
  /\ refs = NoRefs
  /\ now = 0
  /\ index = 0
  /\ upserted = 0
  /\ inflight = <<>>
  /\ caught = NoError
  /\ outcome = "none"
  /\ thrown = NoError
  /\ result = NoResult
  /\ response = NoResponse
  /\ pageRequests = 0
  /\ sleeps = <<>>
  /\ pageLog = <<>>
  /\ fetchIssued = FALSE
  /\ recordWrites = 0
  /\ statusAtStart = successFields(NoStatusRow)
  /\ idsAtStart = [markets |-> {}, scores |-> {}]
  /\ analyst = [m \in MarketIds |-> DefaultAnnotation]
  /\ patchResponse = 0
  /\ patchedInRun = 0
  /\ faults = 0

\* One deployment of the pipeline, not yet run.
InitIdlePipeline ==
  /\ catalog = "empty"
  /\ fileConfig = FileConfig(None, None)
  /\ dbConfig = None
  /\ databaseUrl = TRUE
  /\ InitRun

NothingApplied == [fn |-> "none"]

\* The runSync invocations that overlap, and the records of their working set.
OverlapRuns == {1, 2}
OverlapIds == {"a", "b"}

\* Neither invocation has been made; no SyncStatus write has been issued.
NoOverlap ==
  [run |-> [r \in OverlapRuns |->
              [pc |-> "idle", startedAt |-> 0, now |-> 0, written |-> {}, outcome |-> "none"]],
   statusWrites |-> <<>>]

Init ==
  /\ \E sc \in Scenarios :
       /\ catalog = sc.catalog
       /\ fileConfig = sc.fileConfig
       /\ dbConfig = sc.dbConfig
  /\ databaseUrl \in BOOLEAN
  /\ InitRun
  /\ deployment = [SYNC_TOKEN |-> "secret", VERCEL |-> "1", basicAuth |-> TRUE]
  /\ InitCallers
  /\ applied = NothingApplied
  /\ overlap = NoOverlap

\* ============================================================== runSync
CanStartRun ==
  /\ pc \in {"idle", "ended"}
  /\ runs < MaxRuns
  /\ InFlightRecords = {}

\* The locals of a fresh invocation.
FreshRun ==
  /\ runs' = runs + 1
  /\ startedAt' = clock
  /\ clock' = clock + 1
  /\ config' = fileConfig
  /\ statusAtStart' = successFields(syncStatus)
  /\ idsAtStart' = [markets |-> {m \in MarketIds : marketTable[m] # None},
                    scores |-> {m \in MarketIds : scoreTable[m] # None}]
  /\ offset' = 0
  /\ attempt' = 0
  /\ events' = <<>>
  /\ pageRequests' = 0
  /\ sleeps' = <<>>
  /\ pageLog' = <<>>
  /\ fetchIssued' = FALSE
  /\ markets' = <<>>
  /\ refs' = NoRefs
  /\ now' = 0
  /\ index' = 0
  /\ upserted' = 0
  /\ inflight' = <<>>
  /\ recordWrites' = 0
  /\ caught' = NoError
  /\ result' = NoResult

\* runSync settles and the route answers.
Settle(error) ==
  /\ pc' = "ended"
  /\ outcome' = IF error = NoError THEN "returned" ELSE "threw"
  /\ thrown' = error
  /\ response' = routeResponse(error # NoError)

\* fs.readFile / JSON.parse of the config file throws.
RunStartConfigFail ==
  /\ CanStartRun
  /\ FreshRun
  /\ clientCreated' = FALSE /\ clientOpen' = FALSE /\ poolOpen' = FALSE
  /\ Settle(Err("config file", 0, 0))
  /\ MayFault
  /\ Fault
  /\ UNCHANGED <<applied, overlap, callerVars, envVars, storeVars, patchVars>>

\* createPrismaClient throws: no connection string.
RunStartNoDatabase ==
  /\ CanStartRun
  /\ ~databaseUrl
  /\ FreshRun
  /\ clientCreated' = FALSE /\ clientOpen' = FALSE /\ poolOpen' = FALSE
  /\ Settle(Err("DATABASE_URL or POSTGRES_URL is not set.", 0, 0))
  /\ UNCHANGED <<applied, overlap, callerVars, faults, envVars, storeVars, patchVars>>

\* createPrismaClient returns; scoreConfig.findUnique is issued.
RunStart ==
  /\ CanStartRun
  /\ databaseUrl
  /\ FreshRun
  /\ clientCreated' = TRUE /\ clientOpen' = TRUE /\ poolOpen' = TRUE
  /\ pc' = "readOverride"
  /\ outcome' = "none"
  /\ thrown' = NoError
  /\ response' = NoResponse
  /\ UNCHANGED <<applied, overlap, callerVars, faults, envVars, storeVars, patchVars>>

ReadOverrideOk ==
  /\ pc = "readOverride"
  /\ config' = mergeScoreConfig(fileConfig, dbConfig)
  /\ pc' = "initialStatus"
  /\ UNCHANGED <<applied, overlap, callerVars, faults, envVars, storeVars, fetchVars, writeVars, endVars, connVars,
                 patchVars, clock, runs, startedAt, statusAtStart, idsAtStart>>

\* The rejection leaves runSync before its try statement.
ReadOverrideFail ==
  /\ pc = "readOverride"
  /\ Settle(StoreError("scoreConfig.findUnique"))
  /\ MayFault
  /\ Fault
  /\ UNCHANGED <<applied, overlap, callerVars, envVars, storeVars, fetchVars, writeVars, caught, result, connVars,
                 patchVars, clock, runs, startedAt, config, statusAtStart, idsAtStart>>

InitialStatusOk ==
  /\ pc = "initialStatus"
  /\ syncStatus' = attemptStatusUpsert(syncStatus, startedAt)
  /\ pc' = "fetching"
  /\ UNCHANGED <<applied, overlap, callerVars, faults, envVars, marketTable, scoreTable, scoreHistory, annotation,
                 fetchVars, writeVars, endVars, connVars, patchVars, clock, runs,
                 startedAt, config, statusAtStart, idsAtStart>>

InitialStatusFail ==
  /\ pc = "initialStatus"
  /\ Settle(StoreError("syncStatus.upsert"))
  /\ MayFault
  /\ Fault
  /\ UNCHANGED <<applied, overlap, callerVars, envVars, storeVars, fetchVars, writeVars, caught, result, connVars,
                 patchVars, clock, runs, startedAt, config, statusAtStart, idsAtStart>>

\* ------------------------------------------- fetchAllEvents / fetchJson
HttpErrorStatuses == {429, 500}

\* A non-success response while retries remain: sleep, then the same URL.
FetchRetry(status) ==
  /\ pc = "fetching"
  /\ shouldRetry(attempt)
  /\ fetchIssued' = TRUE
  /\ pageRequests' = pageRequests + 1
  /\ sleeps' = Append(sleeps, backoffDelay(attempt))
  /\ attempt' = attempt + 1
  /\ UNCHANGED <<applied, overlap, callerVars, faults, envVars, storeVars, offset, events, pageLog, writeVars, endVars,
                 connVars, patchVars, clock, runs, pc, startedAt, config,
                 statusAtStart, idsAtStart>>

\* A non-success response with the retries used up.
FetchExhausted(status) ==
  /\ pc = "fetching"
  /\ ~shouldRetry(attempt)
  /\ fetchIssued' = TRUE
  /\ pageRequests' = pageRequests + 1
  /\ caught' = GammaError(status, offset)
  /\ pc' = "catch"
  /\ MayFault
  /\ Fault
  /\ UNCHANGED <<applied, overlap, callerVars, envVars, storeVars, offset, attempt, events, sleeps, pageLog,
                 writeVars, outcome, thrown, result, response, connVars, patchVars,
                 clock, runs, startedAt, config, statusAtStart, idsAtStart>>

\* fetch() rejects (network) or response.json() throws: not retried.
FetchRejects(kind) ==
  /\ pc = "fetching"
  /\ fetchIssued' = TRUE
  /\ pageRequests' = pageRequests + 1
  /\ caught' = Err(kind, 0, offset)
  /\ pc' = "catch"
  /\ MayFault
  /\ Fault
  /\ UNCHANGED <<applied, overlap, callerVars, envVars, storeVars, offset, attempt, events, sleeps, pageLog,
                 writeVars, outcome, thrown, result, response, connVars, patchVars,
                 clock, runs, startedAt, config, statusAtStart, idsAtStart>>

\* A success response: one iteration of the loop of fetchAllEvents.
FetchOk(shape) ==
  /\ pc = "fetching"
  /\ fetchIssued' = TRUE
  /\ LET batch == batchOfPayload(shape, UpstreamPage(CatalogOf(catalog), offset))
         stop == Len(batch) = 0 \/ pageIsLast(batch)
     IN /\ events' = events \o batch
        /\ offset' = offset + Len(batch)
        /\ pageLog' = Append(pageLog,
                             [offset |-> offset, length |-> Len(batch),
                              pause |-> IF stop THEN 0 ELSE PAGE_DELAY_MS])
        /\ pc' = IF stop THEN "fetched" ELSE "fetching"
        /\ pageRequests' = IF stop THEN pageRequests + 1 ELSE 0
        /\ sleeps' = IF stop THEN sleeps ELSE <<>>
        /\ attempt' = IF stop THEN attempt ELSE 0
  /\ UNCHANGED <<applied, overlap, callerVars, faults, envVars, storeVars, writeVars, endVars, connVars, patchVars, clock,
                 runs, startedAt, config, statusAtStart, idsAtStart>>

\* ------------------------------------- normalize, cap, refs, first batch
\* The records of the batch that starts at index (1-based positions).
batchPositions(ms, idx, size) == (idx + 1)..Min(idx + size, Len(ms))

\* Promise.all(batch.map(...)): every record of the batch issues its market upsert.
startBatchToEnd(ms, idx, size) ==
  [i \in 1..Len(ms) |-> IF i > idx THEN "market" ELSE "none"]

startBatch(ms, idx, size) ==
  [i \in 1..Len(ms) |-> IF i \in batchPositions(ms, idx, size) THEN "market" ELSE "none"]

loopContinuesSkipsLast(idx, ms) == idx + 1 < Len(ms)

\* The loop condition of the batch loop.
loopContinues(idx, ms) == idx < Len(ms)

Prepare ==
  /\ pc = "fetched"
  /\ LET ms == marketsToProcess(normalizeEvents(events, config), config)
     IN /\ markets' = ms
        /\ refs' = computeRefs(ms, config)
        /\ inflight' = startBatch(ms, 0, batchSizeOf(config))
        /\ pc' = IF loopContinues(0, ms) THEN "writing" ELSE "successStatus"
  /\ now' = clock
  /\ clock' = clock + 1
  /\ index' = 0
  /\ upserted' = 0
  /\ UNCHANGED <<applied, overlap, callerVars, faults, envVars, storeVars, fetchVars, recordWrites, endVars, connVars,
                 patchVars, runs, startedAt, config, statusAtStart, idsAtStart>>

\* ------------------------------------------------- the writes of a record
writeOp(stage) ==
  CASE stage = "market" -> "market.upsert"
    [] stage = "score" -> "score.upsert"
    [] stage = "history" -> "scoreHistory.create"
    [] stage = "annotation" -> "annotation.upsert"

\* The pending write of record i completes; the record issues its next one.
RecordWriteOk(i) ==
  /\ i \in InFlightRecords
  /\ poolOpen
  /\ LET market == markets[i]
         stage == inflight[i]
     IN /\ marketTable' = IF stage = "market"
                          THEN [marketTable EXCEPT ![market.id] = Some(marketRow(market, now))]
                          ELSE marketTable
        /\ scoreTable' = IF stage = "score"
                         THEN [scoreTable EXCEPT ![market.id] = Some(scoreRow(refs, now))]
                         ELSE scoreTable
        /\ scoreHistory' = IF stage = "history"
                           THEN Append(scoreHistory, historyRow(market, refs, now))
                           ELSE scoreHistory
        /\ annotation' = IF stage = "annotation"
                         THEN [annotation EXCEPT ![market.id] = syncAnnotationUpsert(@)]
                         ELSE annotation
        /\ inflight' = [inflight EXCEPT ![i] = nextStage(stage)]
  /\ recordWrites' = recordWrites + 1
  /\ UNCHANGED <<applied, overlap, callerVars, faults, envVars, syncStatus, fetchVars, markets, refs, now, index, upserted,
                 endVars, connVars, patchVars, clock, runs, pc, startedAt, config,
                 statusAtStart, idsAtStart>>

\* The pending write of record i rejects.  The first rejection rejects the
\* Promise.all of the batch; the other records of the batch stay in flight.
RecordWriteFail(i) ==
  /\ i \in InFlightRecords
  /\ inflight' = [inflight EXCEPT ![i] = "failed"]
  /\ IF pc = "writing"
     THEN /\ pc' = "catch"
          /\ caught' = StoreError(writeOp(inflight[i]))
     ELSE UNCHANGED <<pc, caught>>
  /\ IF poolOpen THEN MayFault /\ Fault ELSE UNCHANGED faults
  /\ UNCHANGED <<applied, overlap, callerVars, envVars, storeVars, fetchVars, markets, refs, now, index, upserted,
                 recordWrites, outcome, thrown, result, response, connVars,
                 patchVars, clock, runs, startedAt, config, statusAtStart, idsAtStart>>

\* Promise.all resolves: upserted += batch.length and the loop goes on.
BatchDone ==
  /\ pc = "writing"
  /\ \A i \in batchPositions(markets, index, batchSizeOf(config)) : inflight[i] = "done"
  /\ upserted' = upserted + Cardinality(batchPositions(markets, index, batchSizeOf(config)))
  /\ index' = index + batchSizeOf(config)
  /\ IF loopContinues(index + batchSizeOf(config), markets)
     THEN /\ inflight' = startBatch(markets, index + batchSizeOf(config), batchSizeOf(config))
          /\ pc' = "writing"
     ELSE /\ inflight' = [i \in 1..Len(markets) |-> "none"]
          /\ pc' = "successStatus"
  /\ UNCHANGED <<applied, overlap, callerVars, faults, envVars, storeVars, fetchVars, markets, refs, now, recordWrites,
                 endVars, connVars, patchVars, clock, runs, startedAt, config,
                 statusAtStart, idsAtStart>>

\* ------------------------------------------------ status, catch, finally
SuccessStatusOk ==
  /\ pc = "successStatus"
  /\ syncStatus' = successStatusUpdate(syncStatus, now, Len(events), upserted, refs)
  /\ result' = [events |-> Len(events), markets |-> upserted, refs |-> refs,
                startedAt |-> startedAt]
  /\ pc' = "finally"
  /\ UNCHANGED <<applied, overlap, callerVars, faults, envVars, marketTable, scoreTable, scoreHistory, annotation,
                 fetchVars, writeVars, caught, outcome, thrown, response, connVars,
                 patchVars, clock, runs, startedAt, config, statusAtStart, idsAtStart>>

SuccessStatusFail ==
  /\ pc = "successStatus"
  /\ caught' = StoreError("syncStatus.update")
  /\ pc' = "catch"
  /\ MayFault
  /\ Fault
  /\ UNCHANGED <<applied, overlap, callerVars, envVars, storeVars, fetchVars, writeVars, outcome, thrown, result,
                 response, connVars, patchVars, clock, runs, startedAt, config,
                 statusAtStart, idsAtStart>>

\* catch: the error message is recorded, then the error is thrown again.
CatchStatusOk ==
  /\ pc = "catch"
  /\ syncStatus' = errorStatusUpdate(syncStatus, caught)
  /\ thrown' = caught
  /\ pc' = "finally"
  /\ UNCHANGED <<applied, overlap, callerVars, faults, envVars, marketTable, scoreTable, scoreHistory, annotation,
                 fetchVars, writeVars, caught, outcome, result, response, connVars,
                 patchVars, clock, runs, startedAt, config, statusAtStart, idsAtStart>>

\* catch: the status update itself rejects and its error leaves the block.
CatchStatusFail ==
  /\ pc = "catch"
  /\ thrown' = StoreError("syncStatus.update(lastError)")
  /\ pc' = "finally"
  /\ MayFault
  /\ Fault
  /\ UNCHANGED <<applied, overlap, callerVars, envVars, storeVars, fetchVars, writeVars, caught, outcome, result,
                 response, connVars, patchVars, clock, runs, startedAt, config,
                 statusAtStart, idsAtStart>>

DisconnectOk ==
  /\ pc = "finally"
  /\ clientOpen' = FALSE
  /\ pc' = "poolEnd"
  /\ UNCHANGED <<applied, overlap, callerVars, faults, envVars, storeVars, fetchVars, writeVars, endVars, clientCreated,
                 poolOpen, patchVars, clock, runs, startedAt, config, statusAtStart, idsAtStart>>

\* prisma.$disconnect() rejects: pool.end() is never reached.
DisconnectFail ==
  /\ pc = "finally"
  /\ Settle(StoreError("$disconnect"))
  /\ MayFault
  /\ Fault
  /\ UNCHANGED <<applied, overlap, callerVars, envVars, storeVars, fetchVars, writeVars, caught, result, connVars,
                 patchVars, clock, runs, startedAt, config, statusAtStart, idsAtStart>>

PoolEndOk ==
  /\ pc = "poolEnd"
  /\ poolOpen' = FALSE
  /\ Settle(thrown)
  /\ UNCHANGED <<applied, overlap, callerVars, faults, envVars, storeVars, fetchVars, writeVars, caught, result,
                 clientCreated, clientOpen, patchVars, clock, runs, startedAt,
                 config, statusAtStart, idsAtStart>>

PoolEndFail ==
  /\ pc = "poolEnd"
  /\ Settle(StoreError("pool.end"))
  /\ MayFault
  /\ Fault
  /\ UNCHANGED <<applied, overlap, callerVars, envVars, storeVars, fetchVars, writeVars, caught, result, connVars,
                 patchVars, clock, runs, startedAt, config, statusAtStart, idsAtStart>>

\* ------------------------------- PATCH /api/markets/{id}/annotation
Patch(m, body, storeOk) ==
  /\ patches < MaxPatches
  /\ patches' = patches + 1
  /\ IF requestedStateOf(body) # Null /\ patchStateOf(body) = Null
     THEN /\ patchResponse' = 400
          /\ UNCHANGED <<annotation, analyst, patchedInRun>>
     ELSE IF ~storeOk \/ (annotation[m] = None /\ marketTable[m] = None)
     THEN \* the upsert rejects (for a market that does not exist: foreign key)
          /\ patchResponse' = 500
          /\ UNCHANGED <<annotation, analyst, patchedInRun>>
     ELSE /\ patchResponse' = 200
          /\ patchedInRun' = runs
          /\ annotation' = [annotation EXCEPT ![m] = patchAnnotationUpsert(@, body)]
          /\ analyst' = [analyst EXCEPT ![m] =
               [state |-> IF patchStateOf(body) # Null THEN patchStateOf(body) ELSE @.state,
                notes |-> IF body.notes # Null THEN body.notes ELSE @.notes,
                owner |-> IF body.owner # Null THEN body.owner ELSE @.owner]]
  /\ UNCHANGED <<applied, overlap, callerVars, faults, envVars, syncStatus, marketTable, scoreTable, scoreHistory,
                 fetchVars, writeVars, endVars, connVars, clock, runs, pc, startedAt,
                 config, statusAtStart, idsAtStart>>

\* One step of a runSync invocation.
SyncNext ==
  \/ RunStartConfigFail
  \/ RunStartNoDatabase
  \/ RunStart
  \/ ReadOverrideOk
  \/ ReadOverrideFail
  \/ InitialStatusOk
  \/ InitialStatusFail
  \/ \E status \in HttpErrorStatuses : FetchRetry(status)
  \/ \E status \in HttpErrorStatuses : FetchExhausted(status)
  \/ \E kind \in {"fetch failed", "invalid json"} : FetchRejects(kind)
  \/ \E shape \in PayloadShapes : FetchOk(shape)
  \/ Prepare
  \/ \E i \in DOMAIN inflight : RecordWriteOk(i)
  \/ \E i \in DOMAIN inflight : RecordWriteFail(i)
  \/ BatchDone
  \/ SuccessStatusOk
  \/ SuccessStatusFail
  \/ CatchStatusOk
  \/ CatchStatusFail
  \/ DisconnectOk
  \/ DisconnectFail
  \/ PoolEndOk
  \/ PoolEndFail

AnalystNext ==
  \E m \in PatchTargets, body \in PatchBodies, storeOk \in BOOLEAN : Patch(m, body, storeOk)

Next == SyncNext \/ AnalystNext

\* The pipeline together with the analyst's endpoint.
Spec == Init /\ [][Next]_vars

\* The pipeline alone.
SyncSpec == Init /\ [][SyncNext]_vars

\* ============================================ the callers of runSync
\* Here a runSync invocation is only counted: started by its caller, settled
\* later.  What one invocation does is the subject of SyncNext.
TotalActive == activeRuns.route + activeRuns.snapshot + activeRuns.script

\* GET /api/sync: the middleware, then the route handler.
SyncRequest(request) ==
  /\ IF ~middleware(deployment, request) \/ ~isAuthorized(deployment, request)
     THEN /\ lastRequest' = [request |-> request, status |-> 401, started |-> FALSE]
          /\ UNCHANGED activeRuns
     ELSE /\ TotalActive < MaxActive
          /\ lastRequest' = [request |-> request, status |-> 0, started |-> TRUE]
          /\ activeRuns' = [activeRuns EXCEPT !.route = @ + 1]
  /\ UNCHANGED <<applied, overlap, runVars, deployment, inFlight, cache, lastSnapshot>>

\* The runSync of a request settles; the route answers 200 or 500.  A request
\* answered 401 keeps its answer.
SyncRunSettles(threw) ==
  /\ activeRuns.route > 0
  /\ activeRuns' = [activeRuns EXCEPT !.route = @ - 1]
  /\ lastRequest' = IF lastRequest.started
                    THEN [lastRequest EXCEPT !.status = routeResponse(threw).status]
                    ELSE lastRequest
  /\ UNCHANGED <<applied, overlap, runVars, deployment, inFlight, cache, lastSnapshot>>

startsRunAlways(pending) == TRUE

\* if (!inFlight): a run is started only when none is pending.
startsRun(pending) == ~pending

\* getRuntimeSnapshot, called by a read endpoint.
SnapshotCall(requireKalshi) ==
  LET hit == cache.present /\ cache.fresh
  IN /\ IF hit /\ ~(requireKalshi /\ ~cache.kalshi)
        THEN /\ lastSnapshot' = "cached"
             /\ UNCHANGED <<cache, inFlight, activeRuns>>
        ELSE /\ cache' = IF hit THEN NoCache ELSE cache
             /\ IF startsRun(inFlight)
                THEN /\ TotalActive < MaxActive
                     /\ inFlight' = TRUE
                     /\ activeRuns' = [activeRuns EXCEPT !.snapshot = @ + 1]
                     /\ lastSnapshot' = "started"
                ELSE /\ lastSnapshot' = "joined"
                     /\ UNCHANGED <<inFlight, activeRuns>>
     /\ UNCHANGED <<applied, overlap, runVars, deployment, lastRequest>>

\* The runSync started by getRuntimeSnapshot settles: then, catch, finally.
SnapshotRunSettles(settled) ==
  /\ inFlight
  /\ activeRuns.snapshot > 0
  /\ cache' = IF settled \in {"markets", "kalshiMarkets"}
              THEN [present |-> TRUE, fresh |-> TRUE, kalshi |-> settled = "kalshiMarkets"]
              ELSE cache
  /\ inFlight' = FALSE
  /\ activeRuns' = [activeRuns EXCEPT !.snapshot = @ - 1]
  /\ lastSnapshot' = settled
  /\ UNCHANGED <<applied, overlap, runVars, deployment, lastRequest>>

\* The time to live of the cache entry elapses.
TtlElapses ==
  /\ cache.present /\ cache.fresh
  /\ cache' = [cache EXCEPT !.fresh = FALSE]
  /\ UNCHANGED <<applied, overlap, runVars, deployment, activeRuns, lastRequest, inFlight, lastSnapshot>>

\* scripts/sync.mjs is started: it calls runSync at once.
ScriptStart ==
  /\ TotalActive < MaxActive
  /\ activeRuns' = [activeRuns EXCEPT !.script = @ + 1]
  /\ UNCHANGED <<applied, overlap, runVars, deployment, lastRequest, inFlight, cache, lastSnapshot>>

ScriptSettles ==
  /\ activeRuns.script > 0
  /\ activeRuns' = [activeRuns EXCEPT !.script = @ - 1]
  /\ UNCHANGED <<applied, overlap, runVars, deployment, lastRequest, inFlight, cache, lastSnapshot>>

CallerInit ==
  /\ InitIdlePipeline
  /\ deployment \in Deployments
  /\ InitCallers
  /\ applied = NothingApplied
  /\ overlap = NoOverlap

CallerNext ==
  \/ \E request \in SyncRequests : SyncRequest(request)
  \/ \E threw \in BOOLEAN : SyncRunSettles(threw)
  \/ \E requireKalshi \in BOOLEAN : SnapshotCall(requireKalshi)
  \/ \E settled \in SnapshotOutcomes : SnapshotRunSettles(settled)
  \/ TtlElapses
  \/ ScriptStart
  \/ ScriptSettles

\* The callers alone.
CallerSpec == CallerInit /\ [][CallerNext]_vars

\* ================================================== two overlapping runs
\* Two runSync invocations against one store, each between two of its awaits.
\* Of the four writes of a record only scoreHistory.create is kept.
overlapFrame ==
  <<applied, callerVars, envVars, marketTable, scoreTable, annotation, fetchVars, writeVars,
    endVars, connVars, patchVars, runs, pc, startedAt, config, statusAtStart, idsAtStart,
    faults>>

\* The refs run r computes from the catalog it fetched.
OverlapRefs(r) == [liquidity |-> 10 * r, volume24h |-> 0, openInterest |-> 0]

statusWritten(r, kind) ==
  [overlap EXCEPT !.statusWrites = Append(@, [run |-> r, kind |-> kind])]

\* runSync is called: const startedAt = new Date()
OverlapCall(r) ==
  /\ overlap.run[r].pc = "idle"
  /\ overlap' = [overlap EXCEPT !.run[r].pc = "attempt", !.run[r].startedAt = clock]
  /\ clock' = clock + 1
  /\ UNCHANGED <<overlapFrame, syncStatus, scoreHistory>>

\* syncStatus.upsert of the start
OverlapAttempt(r) ==
  /\ overlap.run[r].pc = "attempt"
  /\ syncStatus' = attemptStatusUpsert(syncStatus, overlap.run[r].startedAt)
  /\ overlap' = [statusWritten(r, "attempt") EXCEPT !.run[r].pc = "fetching"]
  /\ UNCHANGED <<overlapFrame, scoreHistory, clock>>

\* fetchAllEvents resolves; const now = new Date()
OverlapFetched(r) ==
  /\ overlap.run[r].pc = "fetching"
  /\ overlap' = [overlap EXCEPT !.run[r].pc = "writing", !.run[r].now = clock]
  /\ clock' = clock + 1
  /\ UNCHANGED <<overlapFrame, syncStatus, scoreHistory>>

\* scoreHistory.create of one record
OverlapHistoryCreate(r, m) ==
  /\ overlap.run[r].pc = "writing"
  /\ m \notin overlap.run[r].written
  /\ scoreHistory' = Append(scoreHistory,
                            historyRow([id |-> m], OverlapRefs(r), overlap.run[r].now))
  /\ overlap' = [overlap EXCEPT !.run[r].written = @ \cup {m}]
  /\ UNCHANGED <<overlapFrame, syncStatus, clock>>

\* The fetch, or a write of a record, rejects: the catch block is entered.
OverlapThrows(r) ==
  /\ overlap.run[r].pc \in {"fetching", "writing"}
  /\ overlap' = [overlap EXCEPT !.run[r].pc = "catch"]
  /\ UNCHANGED <<overlapFrame, syncStatus, scoreHistory, clock>>

\* syncStatus.update of the success path, then return
OverlapSuccess(r) ==
  /\ overlap.run[r].pc = "writing"
  /\ overlap.run[r].written = OverlapIds
  /\ syncStatus' = successStatusUpdate(syncStatus, overlap.run[r].now, 1,
                                       Cardinality(OverlapIds), OverlapRefs(r))
  /\ overlap' = [statusWritten(r, "success") EXCEPT
                   !.run[r].pc = "ended", !.run[r].outcome = "returned"]
  /\ UNCHANGED <<overlapFrame, scoreHistory, clock>>

\* syncStatus.update of the catch block, then throw
OverlapCatch(r) ==
  /\ overlap.run[r].pc = "catch"
  /\ syncStatus' = errorStatusUpdate(syncStatus, Err("fetch failed", 0, 0))
  /\ overlap' = [statusWritten(r, "error") EXCEPT
                   !.run[r].pc = "ended", !.run[r].outcome = "threw"]
  /\ UNCHANGED <<overlapFrame, scoreHistory, clock>>

OverlapInit ==
  /\ InitIdlePipeline
  /\ deployment = [SYNC_TOKEN |-> "secret", VERCEL |-> "1", basicAuth |-> TRUE]
  /\ InitCallers
  /\ applied = NothingApplied
  /\ overlap = NoOverlap

OverlapNext ==
  \E r \in OverlapRuns :
    \/ OverlapCall(r)
    \/ OverlapAttempt(r)
    \/ OverlapFetched(r)
    \/ \E m \in OverlapIds : OverlapHistoryCreate(r, m)
    \/ OverlapThrows(r)
    \/ OverlapSuccess(r)
    \/ OverlapCatch(r)

\* Two runs that overlap, alone.
OverlapSpec == OverlapInit /\ [][OverlapNext]_vars

\* ================================== the pure functions, applied to inputs
\* Canonical records handed to scoreMarket.
ScoreRecords ==
  { [id |-> "a", eventId |-> "e1", resolutionSource |-> rs, endDate |-> ed,
     liquidity |-> liq, volume24h |-> vol, openInterest |-> oi,
     tags |-> tg.tags, restricted |-> re, isExcluded |-> FALSE, hasAleaTag |-> tg.alea,
     hasOpenInterestField |-> hoi, hasResolutionSourceField |-> hrs] :
    rs \in {JNull, JStr("uma")}, ed \in {None, Some(40)},
    liq \in {0, Tiny, 999}, vol \in {0, 99}, oi \in {0, 99},
    tg \in {[tags |-> <<>>, alea |-> FALSE], [tags |-> <<"politics">>, alea |-> FALSE],
            [tags |-> <<"politics">>, alea |-> TRUE]},
    re \in BOOLEAN, hoi \in BOOLEAN, hrs \in BOOLEAN }

\* Scoring configs: the defaults, the scenario penalties with thresholds and a
\* minimum horizon, negative weights with positive penalties, magnitudes far
\* from 0..100, and a zero weight.
ScoreConfigs ==
  { [min_days_to_expiry |-> 0],
    [penalties |-> [restricted |-> -10, missing_tags |-> -5, too_short_horizon |-> -7],
     flags_thresholds |-> [min_liquidity |-> 100, min_volume24h |-> 50,
                           min_open_interest |-> 50],
     min_days_to_expiry |-> 2],
    [weights |-> [resolutionIntegrity |-> -500, modelability |-> -40],
     penalties |-> [restricted |-> 1000, too_short_horizon |-> 300],
     min_days_to_expiry |-> 2],
    [weights |-> [resolutionIntegrity |-> 100000, liquidityMicrostructure |-> 100000,
                  modelability |-> 100000, participationQuality |-> 100000,
                  strategicFit |-> 100000],
     penalties |-> [restricted |-> -100000, missing_tags |-> -900000]],
    [weights |-> [liquidityMicrostructure |-> 0, participationQuality |-> 0]] }

ScoreRefs ==
  { [liquidity |-> 999, volume24h |-> 99, openInterest |-> 99],
    [liquidity |-> 9, volume24h |-> 9, openInterest |-> 9],
    [liquidity |-> Tiny, volume24h |-> 99, openInterest |-> 99],
    [liquidity |-> 0, volume24h |-> 0, openInterest |-> 0] }

\* Readings of Date.now(), in hours.
Instants == {0, 30}

\* One application of a function to one input: the inputs and the result are
\* kept in applied.
ApplyScoreMarket(market, conf, refsValue, dateNow) ==
  /\ applied' = [fn |-> "scoreMarket", market |-> market, config |-> conf,
                 refs |-> refsValue, dateNow |-> dateNow,
                 result |-> scoreMarket(market, conf, refsValue, dateNow)]
  /\ UNCHANGED <<runVars, callerVars, overlap>>

\* scoreMarket is invoked again, later, with the record, config and refs of
\* the application before.
ScoreMarketAgain(dateNow) ==
  /\ applied.fn = "scoreMarket"
  /\ dateNow > applied.dateNow
  /\ applied' = [applied EXCEPT
                   !.dateNow = dateNow,
                   !.result = scoreMarket(applied.market, applied.config, applied.refs,
                                          dateNow)]
  /\ UNCHANGED <<runVars, callerVars, overlap>>

\* Working sets handed to the reference statistics: every sequence of at most
\* MaxWorkingSet records over a few metric values, and ten records whose
\* liquidity runs 10, 20, ..., 100.
MetricRecords ==
  { [liquidity |-> liq, volume24h |-> vol, openInterest |-> oi] :
    liq \in {0, 10, 20}, vol \in {0, 5}, oi \in {0, 7} }

TenRecords == [i \in 1..10 |-> [liquidity |-> 10 * i, volume24h |-> 0, openInterest |-> 7]]

WorkingSets ==
  UNION { [1..n -> MetricRecords] : n \in 0..MaxWorkingSet } \cup {TenRecords}

\* config.ref_percentile in hundredths, or absent.
RefPercentiles == {None, Some(0), Some(50), Some(90), Some(100)}

ApplyComputeRefs(ms, p) ==
  /\ applied' = [fn |-> "computeRefs", markets |-> ms, config |-> [ref_percentile |-> p],
                 result |-> computeRefs(ms, [ref_percentile |-> p])]
  /\ UNCHANGED <<runVars, callerVars, overlap>>

\* Upstream payloads for normalization followed by scoring: each of liquidity,
\* open interest and resolution source is absent from the payload or present
\* with one of a few values.
\* A key with its value, or no key when the choice is JUndefined.
field(key, choice) == IF choice = JUndefined THEN NoFields ELSE [k \in {key} |-> choice]

ChildPayloads ==
  { [id |-> JStr("a")] @@ field("liquidity", liq) @@ field("openInterest", oi)
      @@ field("resolutionSource", rs) @@ field("endDate", ed) :
    liq \in {JUndefined, JNum(0), JNum(999), JNum(-5), JStr("soon")},
    oi \in {JUndefined, JNum(0), JNum(99)},
    rs \in {JUndefined, JNull, JStr("uma")},
    ed \in {JUndefined, JStr("soon"), JDate(40)} }
  \cup {JNull, JStr("soon")}

ParentPayloads ==
  { [id |-> JStr("e1")] @@ field("liquidity", liq) @@ field("openInterest", oi)
      @@ field("resolution_source", rs) :
    liq \in {JUndefined, JNum(0)}, oi \in {JUndefined, JNum(0)},
    rs \in {JUndefined, JStr("")} }
  \cup {JNull}

\* runSync's normalization of one child of one parent, then its scoring.
ApplyBuildAndScore(market, event, conf, refsValue, dateNow) ==
  LET record == buildMarketRecord(market, event, 0, conf, buildAllowedTagSet(conf),
                                  buildExcludeTagSet(conf))
  IN /\ applied' = [fn |-> "buildAndScore", market |-> market, event |-> event,
                    config |-> conf, refs |-> refsValue, dateNow |-> dateNow,
                    record |-> record,
                    result |-> scoreMarket(record, conf, refsValue, dateNow)]
     /\ UNCHANGED <<runVars, callerVars, overlap>>

\* config.sync_market_limit: absent, or a number.
MarketLimits == {None, Some(0), Some(1), Some(2), Some(5)}

\* The normalized catalog handed to the size cap: the records of a working
\* set, with ids by position.
withIds(ms) == [i \in 1..Len(ms) |-> [id |-> ToString(i)] @@ ms[i]]

ApplyMarketsToProcess(ms, limit) ==
  /\ applied' = [fn |-> "marketsToProcess", markets |-> withIds(ms),
                 config |-> [sync_market_limit |-> limit],
                 result |-> marketsToProcess(withIds(ms), [sync_market_limit |-> limit])]
  /\ UNCHANGED <<runVars, callerVars, overlap>>

\* Fetched catalogs for normalization: up to MaxParents parents, each with one
\* or two children; a child has a native id or none, and the children of one
\* parent have different native ids.
ChildIds == {Null, "a", "b"}

ChildLists ==
  { <<RawMarket(id, 0, 0, 0)>> : id \in ChildIds }
  \cup { <<RawMarket(ids[1], 0, 0, 0), RawMarket(ids[2], 0, 0, 0)>> :
          ids \in {pair \in ChildIds \X ChildIds : pair[1] # pair[2] \/ pair[1] = Null} }

FetchedCatalogs ==
  UNION { { [i \in 1..n |-> RawEvent(i, children[i])] : children \in [1..n -> ChildLists] } :
          n \in 1..MaxParents }

ApplyNormalizeEvents(evs, conf) ==
  /\ applied' = [fn |-> "normalizeEvents", events |-> evs, config |-> conf,
                 result |-> normalizeEvents(evs, conf)]
  /\ UNCHANGED <<runVars, callerVars, overlap>>

\* Config files and ScoreConfig rows for the merge: each group of tunables is
\* absent or present, and a row's group may carry fewer keys than the file's.
optional(key, choices) == {NoFields} \cup {[k \in {key} |-> choice] : choice \in choices}

FileConfigs ==
  { FileConfig(None, None) @@ w @@ pen @@ th :
    w \in optional("weights", {[resolutionIntegrity |-> 40, modelability |-> 20]}),
    pen \in optional("penalties",
                     {[restricted |-> -10, missing_tags |-> -5, too_short_horizon |-> -7]}),
    th \in optional("flags_thresholds", {[min_liquidity |-> 100, min_volume24h |-> 50]}) }

ScoreConfigRows ==
  { w @@ pen @@ th @@ pct :
    w \in optional("weights", {[modelability |-> 10],
                               [resolutionIntegrity |-> 35, modelability |-> 10]}),
    pen \in optional("penalties", {[restricted |-> -20, missing_tags |-> -5]}),
    th \in optional("flagsThresholds", {[min_liquidity |-> 500]}),
    pct \in optional("refPercentile", {50}) }

\* runSync's merge of the file and the row, and the scoring of a record that
\* is restricted, untagged and short of the horizon under the merged config.
ApplyMergeScoreConfig(file, row) ==
  LET merged == mergeScoreConfig(file, row)
      market == [id |-> "a", eventId |-> "e1", resolutionSource |-> JStr("uma"),
                 endDate |-> Some(40), liquidity |-> 0, volume24h |-> 0,
                 openInterest |-> 0, tags |-> <<>>, restricted |-> TRUE,
                 isExcluded |-> FALSE, hasAleaTag |-> FALSE,
                 hasOpenInterestField |-> FALSE, hasResolutionSourceField |-> TRUE]
  IN /\ applied' = [fn |-> "mergeScoreConfig", fileConfig |-> file, dbConfig |-> row,
                    result |-> merged,
                    score |-> scoreMarket(market, [min_days_to_expiry |-> 2] @@ merged,
                                          NoRefs, 30)]
     /\ UNCHANGED <<runVars, callerVars, overlap>>

\* What a JSON value handed to normalization can be.
ValueKinds == {"undefined", "null", "boolean", "number", "string", "array", "object"}

\* The operations of normalization that throw on some kind of value, each with
\* the test that guards it: fn is the function, op the operation, guard the
\* test under which the operation is reached.
GuardedOperations ==
  { [fn |-> "normalizeTags", op |-> "map", guard |-> "isArray"],
    [fn |-> "normalizeTags", op |-> "toLowerCase", guard |-> "isString"],
    [fn |-> "normalizeTags", op |-> "member", guard |-> "truthyMember"],
    [fn |-> "normalizeOutcomeName", op |-> "in", guard |-> "isObject"],
    [fn |-> "normalizeOutcomePrices", op |-> "map", guard |-> "isArray"],
    [fn |-> "hasOwn", op |-> "hasOwnProperty", guard |-> "isObject"],
    [fn |-> "slimEventPayload", op |-> "in", guard |-> "isObject"],
    [fn |-> "buildMarketRecord", op |-> "optionalMember", guard |-> "none"],
    [fn |-> "buildMarketRecord", op |-> "map", guard |-> "isArray"],
    [fn |-> "buildMarketRecord", op |-> "member", guard |-> "isObject"],
    [fn |-> "runSync", op |-> "optionalMember", guard |-> "none"],
    [fn |-> "runSync", op |-> "forEach", guard |-> "isArray"] }

guardAdmitsAll(guard, kind) == TRUE

\* The kinds of value for which a guard lets the operation run: Array.isArray,
\* typeof === "string", value && typeof value === "object", value?.key truthy;
\* "none" is no guard.
guardAdmits(guard, kind) ==
  CASE guard = "isArray" -> kind = "array"
    [] guard = "isString" -> kind = "string"
    [] guard = "isObject" -> kind \in {"array", "object"}
    [] guard = "truthyMember" -> kind = "object"
    [] guard = "none" -> TRUE

\* The kinds of value on which an operation does not throw.
operationAccepts(op, kind) ==
  CASE op \in {"map", "forEach"} -> kind = "array"
    [] op = "toLowerCase" -> kind = "string"
    [] op = "in" -> kind \in {"array", "object"}
    [] op \in {"member", "hasOwnProperty"} -> kind \notin {"undefined", "null"}
    [] op = "optionalMember" -> TRUE

\* The outcome of a guarded operation on a value of a kind.
outcomeOf(operation, kind) ==
  IF ~guardAdmits(operation.guard, kind) THEN "skipped"
  ELSE IF operationAccepts(operation.op, kind) THEN "done"
  ELSE "threw"

ApplyGuardedOperation(operation, kind) ==
  /\ applied' = [fn |-> "guardedOperation", operation |-> operation, kind |-> kind,
                 result |-> outcomeOf(operation, kind)]
  /\ UNCHANGED <<runVars, callerVars, overlap>>

\* Tags arrays of upstream: entries of the three recognized shapes and of
\* another one, with slugs that differ in letter case only or altogether.
TagEntries ==
  { TagEntry(shape, slug) : shape \in {"string", "slug", "nested", "other"},
                            slug \in {"Politics", "politics", "Sports"} }

TagArrays == UNION { [1..n -> TagEntries] : n \in 0..MaxTags }

ApplyNormalizeTags(tags) ==
  /\ applied' = [fn |-> "normalizeTags", tags |-> tags, result |-> normalizeTags(tags)]
  /\ UNCHANGED <<runVars, callerVars, overlap>>

PureNext ==
  \/ /\ applied = NothingApplied
     /\ \E market \in ScoreRecords, conf \in ScoreConfigs, refsValue \in ScoreRefs,
           dateNow \in Instants : ApplyScoreMarket(market, conf, refsValue, dateNow)
  \/ \E dateNow \in Instants : ScoreMarketAgain(dateNow)
  \/ /\ applied = NothingApplied
     /\ \E ms \in WorkingSets, p \in RefPercentiles : ApplyComputeRefs(ms, p)
  \/ /\ applied = NothingApplied
     /\ \E ms \in WorkingSets, limit \in MarketLimits : ApplyMarketsToProcess(ms, limit)
  \/ /\ applied = NothingApplied
     /\ \E evs \in FetchedCatalogs, conf \in ScoreConfigs : ApplyNormalizeEvents(evs, conf)
  \/ /\ applied = NothingApplied
     /\ \E file \in FileConfigs, row \in {None} \cup {Some(x) : x \in ScoreConfigRows} :
          ApplyMergeScoreConfig(file, row)
  \/ /\ applied = NothingApplied
     /\ \E tags \in TagArrays : ApplyNormalizeTags(tags)
  \/ /\ applied = NothingApplied
     /\ \E operation \in GuardedOperations, kind \in ValueKinds :
          ApplyGuardedOperation(operation, kind)
  \/ /\ applied = NothingApplied
     /\ \E market \in ChildPayloads, event \in ParentPayloads, conf \in ScoreConfigs,
           refsValue \in ScoreRefs, dateNow \in Instants :
          ApplyBuildAndScore(market, event, conf, refsValue, dateNow)

PureInit ==
  /\ InitIdlePipeline
  /\ deployment = [SYNC_TOKEN |-> "secret", VERCEL |-> "1", basicAuth |-> TRUE]
  /\ InitCallers
  /\ applied = NothingApplied
  /\ overlap = NoOverlap

\* The pure functions alone.
PureSpec == PureInit /\ [][PureNext]_vars

\* ============================================================ properties
Positions == 1..Len(markets)

RecordWriteOps == {"market.upsert", "score.upsert", "scoreHistory.create", "annotation.upsert"}
FetchErrorTypes == {"Gamma API error", "fetch failed", "invalid json"}

\* History rows of market m computed at t.
HistoryCount(m, t) ==
  Cardinality({k \in 1..Len(scoreHistory) :
                 scoreHistory[k].marketId = m /\ scoreHistory[k].computedAt = t})

\* All four rows of record i carry this run's timestamp.
WrittenByThisRun(i) ==
  LET m == markets[i].id
  IN /\ marketTable[m] # None /\ marketTable[m][1].lastSeenAt = now
     /\ scoreTable[m] # None /\ scoreTable[m][1].computedAt = now
     /\ HistoryCount(m, now) = 1
     /\ annotation[m] # None

\* No row of record i carries this run's timestamp.
UntouchedByThisRun(i) ==
  LET m == markets[i].id
  IN /\ marketTable[m] # None => marketTable[m][1].lastSeenAt # now
     /\ scoreTable[m] # None => scoreTable[m][1].computedAt # now
     /\ HistoryCount(m, now) = 0

\* A step inside the try statement threw and the catch block has been left.
RunFailedInTry == caught # NoError /\ pc \in {"finally", "poolEnd", "ended"}

\* C1: a run in which a step after the initial status write threw has written
\* lastError = the error's message, has left lastAttemptedSyncAt at its start
\* time and the success fields as it found them, has rejected with that same
\* error, and the caller has not reported success.
C1_FailureRecordedAndRethrown ==
  RunFailedInTry =>
    /\ syncStatus.lastError = Some(caught)
    /\ syncStatus.lastAttemptedSyncAt = Some(startedAt)
    /\ successFields(syncStatus) = statusAtStart
    /\ thrown = caught
    /\ pc = "ended" => outcome = "threw" /\ ~response.ok

\* C2: whenever an upstream request is about to be issued or has been issued,
\* the store client exists and the status row carries this run's start time;
\* at the moment of a request lastError is null; a run without a store
\* connection ends without any request.
C2_NoFetchBeforeAttemptRecorded ==
  /\ fetchIssued =>
       /\ clientCreated
       /\ syncStatus.exists
       /\ syncStatus.lastAttemptedSyncAt = Some(startedAt)
  /\ pc = "fetching" =>
       /\ clientCreated /\ clientOpen /\ poolOpen
       /\ syncStatus.lastAttemptedSyncAt = Some(startedAt)
       /\ syncStatus.lastError = None
  /\ (pc = "ended" /\ ~clientCreated) => ~fetchIssued

C2_Witness == pc = "fetching" /\ fetchIssued /\ runs = 2 /\ offset = PAGE_SIZE

\* C3: once a run has written the success fields, no record write is pending,
\* every record of the working set has its four rows from this run, and the
\* row holds markets = size of the working set, events = number of fetched
\* parents, and the refs the scores of this run were computed with.
C3_SuccessOnlyAfterAllWrites ==
  successFields(syncStatus) # statusAtStart =>
    /\ \A i \in Positions : inflight[i] = "none" /\ WrittenByThisRun(i)
    /\ syncStatus.lastSuccessfulSyncAt = Some(now)
    /\ syncStatus.lastStats = Some([events |-> Len(events), markets |-> Len(markets)])
    /\ syncStatus.lastRefs = Some(refs)
    /\ \A i \in Positions : scoreTable[markets[i].id][1].refs = syncStatus.lastRefs[1]

C3_Witness ==
  /\ pc = "ended" /\ outcome = "returned"
  /\ Len(markets) = 3 /\ Len(events) = PAGE_SIZE
  /\ syncStatus.lastStats = Some([events |-> PAGE_SIZE, markets |-> 3])

\* The history table only grows at its end.
HistoryAppendOnly ==
  /\ Len(scoreHistory') >= Len(scoreHistory)
  /\ SubSeq(scoreHistory', 1, Len(scoreHistory)) = scoreHistory

\* Upstream served the whole catalog to this run / to the last successful run.
SawWholeCatalog == Len(events) = Len(CatalogOf(catalog))
EarlierSuccessSawWholeCatalog ==
  /\ statusAtStart.lastSuccessfulSyncAt # None
  /\ statusAtStart.lastStats[1].events = Len(CatalogOf(catalog))

SecondSuccess ==
  /\ pc = "ended" /\ outcome = "returned"
  /\ SawWholeCatalog /\ EarlierSuccessSawWholeCatalog

C4_AfterSecondSuccess ==
  SecondSuccess =>
    /\ {m \in MarketIds : marketTable[m] # None} = idsAtStart.markets
    /\ {m \in MarketIds : scoreTable[m] # None} = idsAtStart.scores
    /\ \A i \in Positions :
         /\ marketTable[markets[i].id] # None
         /\ scoreTable[markets[i].id] # None
         /\ HistoryCount(markets[i].id, now) = 1
         /\ HistoryCount(markets[i].id, statusAtStart.lastSuccessfulSyncAt[1]) = 1
    /\ \A m \in MarketIds : HistoryCount(m, now) = 1 <=> \E i \in Positions : markets[i].id = m
    /\ \A m \in MarketIds : HistoryCount(m, now) \in {0, 1}

\* C4: a run that completes successfully after an earlier successful run over
\* the same catalog leaves the market ids as they were, one score row per
\* record, one new history row per record next to the earlier run's row; no
\* step ever changes or removes a history row.
C4_RerunIsIdempotent == [](C4_AfterSecondSuccess) /\ [][HistoryAppendOnly]_vars

C4_Witness == SecondSuccess /\ Len(markets) = 3 /\ Len(scoreHistory) = 6

\* C5: an annotation row always holds the state, notes and owner the analyst
\* last set (the defaults where the analyst set nothing), whatever runs and
\* PATCH requests have been interleaved.
C5_AnnotationIsTheAnalysts ==
  \A m \in MarketIds : annotation[m] # None => annotation[m][1] = analyst[m]

\* A run re-synced market "a" after the analyst had changed its annotation.
C5_Witness ==
  /\ patchedInRun = 1 /\ runs = 2
  /\ pc = "ended" /\ outcome = "returned"
  /\ \E i \in Positions : markets[i].id = "a" /\ WrittenByThisRun(i)
  /\ annotation["a"] # None /\ annotation["a"][1] # DefaultAnnotation

\* A received page ends the requests to its URL.
PageEndsRetries ==
  Len(pageLog') > Len(pageLog) => (pc' = "fetched" \/ (offset' > offset /\ attempt' = 0 /\ pageRequests' = 0))

C6_RequestsBounded ==
  /\ pageRequests <= 1 + 3
  /\ pc = "fetching" =>
       /\ pageRequests = Len(sleeps)
       /\ \A a \in 1..Len(sleeps) : sleeps[a] = 400 * Pow2(a - 1)
  /\ caught.type = "Gamma API error" =>
       /\ pageRequests = 4
       /\ sleeps = <<400, 800, 1600>>
       /\ caught.status \in HttpErrorStatuses
       /\ caught.offset = offset
       /\ pc \in {"catch", "finally", "poolEnd", "ended"}
       /\ pc = "ended" => outcome = "threw"

\* C6: a page URL receives at most 4 requests; before retry a (0, 1, 2) the
\* wait is 400 * 2^a ms; a non-success fourth response raises an error with
\* the status and the URL and the run fails; a success response ends the
\* retries of the page.
C6_BoundedBackoffRetry == [](C6_RequestsBounded) /\ [][PageEndsRetries]_vars

C6_Witness ==
  /\ pc = "catch" /\ caught = GammaError(429, PAGE_SIZE)
  /\ pageRequests = 4 /\ sleeps = <<400, 800, 1600>>

RECURSIVE SumLengths(_)
SumLengths(log) == IF log = <<>> THEN 0 ELSE log[1].length + SumLengths(Tail(log))

FetchLoopEnded == pc \in {"fetched", "writing", "successStatus"}

\* C7: pages are requested at offsets 0, 100, 200, ...; every page but the
\* last received is full and followed by the 200 ms pause; the loop has ended
\* exactly when the last page received is empty or short; the events are the
\* pages received, concatenated in order.
C7_PaginationStopsAtShortPage ==
  /\ \A k \in 1..Len(pageLog) : pageLog[k].offset = (k - 1) * 100
  /\ \A k \in 1..(Len(pageLog) - 1) : pageLog[k].length = 100 /\ pageLog[k].pause = 200
  /\ (pc = "fetching" /\ pageLog # <<>>) =>
       pageLog[Len(pageLog)].length = 100 /\ pageLog[Len(pageLog)].pause = 200
  /\ FetchLoopEnded =>
       /\ pageLog # <<>>
       /\ pageLog[Len(pageLog)].length < 100
       /\ pageLog[Len(pageLog)].pause = 0
  /\ Len(events) = SumLengths(pageLog)
  /\ events = SubSeq(CatalogOf(catalog), 1, Len(events))

C7_Witness ==
  /\ pc = "fetched"
  /\ Len(pageLog) = 2 /\ pageLog[1].length = 100 /\ pageLog[2].length = 3
  /\ Len(events) = 103

\* C8: no record write is issued before the catalog is fetched and normalized
\* and the refs are computed; a run whose fetch failed has written no record
\* and has lastError set.
C8_NoWritesBeforeFetchCompletes ==
  /\ (recordWrites > 0 \/ \E i \in DOMAIN inflight : inflight[i] # "none") =>
       /\ pc \notin {"idle", "readOverride", "initialStatus", "fetching", "fetched"}
       /\ markets = marketsToProcess(normalizeEvents(events, config), config)
       /\ refs = computeRefs(markets, config)
  /\ (pc = "ended" /\ caught.type \in FetchErrorTypes) =>
       /\ recordWrites = 0
       /\ \A i \in DOMAIN inflight : inflight[i] = "none"
       /\ syncStatus.lastError = Some(caught)

\* C9: after a record write failed in the batch starting at index, every
\* record of the earlier batches has its four rows of this run, no record of
\* a later batch has any, and the run ended failed with lastError set.
C9_FlushedBatchesSurvive ==
  (pc = "ended" /\ caught.type \in RecordWriteOps) =>
    /\ \A i \in Positions : i <= index => WrittenByThisRun(i)
    /\ \A i \in Positions :
         i > index + batchSizeOf(config) => inflight[i] = "none" /\ UntouchedByThisRun(i)
    /\ outcome = "threw"
    /\ syncStatus.lastError = Some(caught)

\* C10: a settled invocation that created a client and a pool has
\* disconnected the client and ended the pool.
C10_CleanupOnEveryPath ==
  (pc = "ended" /\ clientCreated) => (~clientOpen /\ ~poolOpen)


\* C11: at most one runSync invocation is in progress at any time, whichever
\* callers started them.
C11_AtMostOneRunActive == TotalActive <= 1

\* A score within the range of totalScore.
InScoreRange(x) == x.k = "fin" /\ 0 <= x.v /\ x.v <= 100 * SCALE

\* C12: whatever the record, the refs and the config, the totalScore that
\* scoreMarket returns is a number between 0 and 100.
C12_TotalScoreWithinRange ==
  applied.fn = "scoreMarket" => InScoreRange(applied.result.totalScore)


\* The metric values of ms that percentile is handed: the strictly positive ones.
PositiveAt(ms, key) == {i \in 1..Len(ms) : ms[i][key] > 0}

\* v is the element at index floor(p * (n - 1)) of the n strictly positive
\* values of the metric in ascending order, or 0 when there is none.
IsReferenceValue(ms, key, p, v) ==
  LET pos == PositiveAt(ms, key)
      n == Cardinality(pos)
      idx == (p * (n - 1)) \div 100
  IN IF n = 0 THEN v = 0
     ELSE \E i \in pos :
            /\ ms[i][key] = v
            /\ Cardinality({j \in pos : ms[j][key] < v}) <= idx
            /\ Cardinality({j \in pos : ms[j][key] <= v}) > idx

\* C13: for every percentile in [0,1] and each metric, the reference value is 0
\* when the working set has no strictly positive value, and otherwise the
\* element at index floor(p * (n - 1)) of the positive values sorted ascending,
\* so always an observed value.
C13_ReferenceIsObservedValue ==
  applied.fn = "computeRefs" =>
    LET p == refPercentileOf(applied.config)
    IN \A key \in {"liquidity", "volume24h", "openInterest"} :
         IsReferenceValue(applied.markets, key, p, applied.result[key])

\* The percentile 0.9 over liquidity 10, 20, ..., 100 is 90; no record of that
\* working set has volume, so the volume reference is 0.
C13_Witness ==
  /\ applied.fn = "computeRefs"
  /\ applied.markets = TenRecords
  /\ applied.config.ref_percentile = Some(90)
  /\ applied.result.liquidity = 90
  /\ applied.result.volume24h = 0

HasFlag(score, flag) == \E i \in 1..Len(score.flags) : score.flags[i] = flag
CarriesNone(payload, keys) == \A i \in 1..Len(keys) : keys[i] \notin DOMAIN payload

\* C14: a record whose child and parent payloads carry none of the keys of
\* liquidity, of open interest, or of the resolution source never receives
\* low_liquidity, weak_open_interest, or missing_resolution_source respectively,
\* even when the coerced value is below the configured threshold.
C14_NoFlagWithoutField ==
  applied.fn = "buildAndScore" =>
    /\ (CarriesNone(applied.market, LiquidityKeys) /\ CarriesNone(applied.event, LiquidityKeys))
         => ~HasFlag(applied.result, "low_liquidity")
    /\ (CarriesNone(applied.market, openInterestKeys)
         /\ CarriesNone(applied.event, openInterestKeys))
         => ~HasFlag(applied.result, "weak_open_interest")
    /\ (CarriesNone(applied.market, resolutionSourceKeys)
         /\ CarriesNone(applied.event, resolutionSourceKeys))
         => ~HasFlag(applied.result, "missing_resolution_source")

\* The penalty configured for a reason: the config's entry, else the default.
ConfiguredPenalty(conf, reason) ==
  LET overrides == cfg(conf, "penalties", NoFields)
  IN IF reason \in DOMAIN overrides THEN overrides[reason]
     ELSE IF reason = "restricted" THEN -10
     ELSE IF reason = "missing_tags" THEN -5
     ELSE 0

\* The sum of the configured penalties of the reasons that apply, in points.
PenaltiesThatApply(market, conf, score) ==
  (IF market.restricted THEN ConfiguredPenalty(conf, "restricted") ELSE 0)
  + (IF market.tags = <<>> THEN ConfiguredPenalty(conf, "missing_tags") ELSE 0)
  + (IF HasFlag(score, "too_short_horizon")
     THEN ConfiguredPenalty(conf, "too_short_horizon") ELSE 0)

\* C15: the penalty component is the sum of the configured penalties of the
\* reasons that apply (restricted, missing tags, too-short horizon), and the
\* total is the clamp of the positive components plus that penalty.
C15_PenaltyIsSumBeforeClamp ==
  applied.fn = "scoreMarket" =>
    LET c == applied.result.components
        unclamped == c.resolutionIntegrity + c.liquidityMicrostructure.v + c.modelability
                     + c.participationQuality.v + c.strategicFit + c.penalties
    IN /\ c.penalties
            = PenaltiesThatApply(applied.market, applied.config, applied.result) * SCALE
       /\ (c.liquidityMicrostructure.k = "fin" /\ c.participationQuality.k = "fin")
            => applied.result.totalScore = Fin(Max(0, Min(100 * SCALE, unclamped)))

\* A restricted record without tags under penalties {restricted: -10,
\* missing_tags: -5} has a penalty component of -15, and the penalty lowers a
\* total that is not clamped.
C15_Witness ==
  /\ applied.fn = "scoreMarket"
  /\ applied.market.restricted
  /\ applied.market.tags = <<>>
  /\ ConfiguredPenalty(applied.config, "restricted") = -10
  /\ ConfiguredPenalty(applied.config, "missing_tags") = -5
  /\ ~HasFlag(applied.result, "too_short_horizon")
  /\ applied.result.components.penalties = -15 * SCALE
  /\ applied.result.totalScore.k = "fin"
  /\ applied.result.totalScore.v > 0
  /\ applied.result.totalScore.v < 100 * SCALE

\* Record a is ahead of record b by liquidity, then volume24h, then
\* openInterest, each descending.
Higher(a, b) ==
  \/ a.liquidity > b.liquidity
  \/ a.liquidity = b.liquidity /\ a.volume24h > b.volume24h
  \/ a.liquidity = b.liquidity /\ a.volume24h = b.volume24h
     /\ a.openInterest > b.openInterest

\* The number of catalog records ahead of the one at position i; records
\* equal on all three metrics keep their catalog order.
Rank(ms, i) ==
  Cardinality({j \in 1..Len(ms) :
                 Higher(ms[j], ms[i]) \/ (~Higher(ms[i], ms[j]) /\ j < i)})

CapExceeded(ms, conf) ==
  /\ conf.sync_market_limit # None
  /\ conf.sync_market_limit[1] > 0
  /\ Len(ms) > conf.sync_market_limit[1]

\* C16: when a size cap N > 0 is configured and the catalog has more than N
\* records, the working set is the first N records of the catalog ordered by
\* liquidity, then volume24h, then openInterest, descending; otherwise it is
\* the whole catalog.
C16_WorkingSetIsTopN ==
  applied.fn = "marketsToProcess" =>
    IF CapExceeded(applied.markets, applied.config)
    THEN /\ Len(applied.result) = applied.config.sync_market_limit[1]
         /\ \A k \in 1..Len(applied.result) :
              \E i \in 1..Len(applied.markets) :
                Rank(applied.markets, i) = k - 1 /\ applied.result[k] = applied.markets[i]
    ELSE applied.result = applied.markets

\* A cap of 2 over three records: the last of the catalog leads the working
\* set on volume24h alone, and the first of the catalog is cut.
C16_Witness ==
  /\ applied.fn = "marketsToProcess"
  /\ Len(applied.markets) = 3
  /\ applied.config.sync_market_limit = Some(2)
  /\ Len(applied.result) = 2
  /\ applied.result[1] = applied.markets[3]
  /\ applied.result[2] = applied.markets[2]
  /\ applied.markets[3].liquidity = applied.markets[2].liquidity
  /\ applied.markets[3].volume24h > applied.markets[2].volume24h

\* C17: the canonical records built from one fetched catalog have pairwise
\* distinct ids, including records whose id is the composite of parent id and
\* index and records of the same market under different parents.
C17_RecordIdsDistinct ==
  applied.fn = "normalizeEvents" =>
    \A i, j \in 1..Len(applied.result) :
      applied.result[i].id = applied.result[j].id => i = j

\* C18: two invocations of scoreMarket with identical record, config and refs
\* return identical totalScore, components and flags, whatever the time of the
\* invocation.
C18_ScoreIsPure ==
  [][(/\ applied.fn = "scoreMarket"
      /\ applied'.fn = "scoreMarket"
      /\ applied'.market = applied.market
      /\ applied'.config = applied.config
      /\ applied'.refs = applied.refs)
     => applied'.result = applied.result]_vars

\* The request presents the configured SYNC_TOKEN as token query parameter or
\* as Bearer authorization header, or is a Vercel cron request.
PresentsCredential(env, request) ==
  \/ /\ env.SYNC_TOKEN \notin {Null, ""}
     /\ \/ request.token = env.SYNC_TOKEN
        \/ request.authorization = <<"Bearer", env.SYNC_TOKEN>>
  \/ env.VERCEL = "1" /\ request.cron = "1"

\* C19: a request to /api/sync starts runSync only if it presents the
\* configured SYNC_TOKEN or is a Vercel cron request; every other request is
\* answered 401 and starts no run.
C19_OnlyAuthorizedRequestsStartRuns ==
  [][/\ activeRuns'.route > activeRuns.route
        => lastRequest'.started /\ PresentsCredential(deployment, lastRequest'.request)
     /\ lastRequest'.started => PresentsCredential(deployment, lastRequest'.request)
     /\ (lastRequest' # NoRequest /\ ~PresentsCredential(deployment, lastRequest'.request))
        => /\ lastRequest'.status = 401
           /\ ~lastRequest'.started
           /\ lastRequest' # lastRequest => activeRuns' = activeRuns]_vars

\* A run started by a request is in progress, and a later request with a wrong
\* token and a cron header outside Vercel has been answered 401.
C19_Witness ==
  /\ activeRuns.route = 1
  /\ deployment.SYNC_TOKEN = "secret"
  /\ deployment.VERCEL = Null
  /\ lastRequest.request.token = "wrong"
  /\ lastRequest.request.cron = "1"
  /\ lastRequest.status = 401
  /\ ~lastRequest.started

\* The 0-based number of the batch of position i for a batch size.
BatchOf(i, size) == (i - 1) \div size

\* C20: records are written in consecutive batches of sync_batch_size records:
\* the in-flight record writes all belong to one batch, so at most batch-size
\* records are being written at once, and a record of batch k+1 is in flight
\* only after every record of the batches before it has been written in full.
C20_OneBatchInFlight ==
  LET size == IF config.sync_batch_size = None THEN 25 ELSE config.sync_batch_size[1]
  IN /\ Cardinality(InFlightRecords) <= size
     /\ \A i, j \in InFlightRecords : BatchOf(i, size) = BatchOf(j, size)
     /\ \A i \in InFlightRecords :
          \A j \in Positions : BatchOf(j, size) < BatchOf(i, size) => WrittenByThisRun(j)

\* With three records and a batch size of 2, the third record is in flight
\* alone, after the two records of the first batch have been written.
C20_Witness ==
  /\ pc = "writing"
  /\ Len(markets) = 3
  /\ config.sync_batch_size = Some(2)
  /\ InFlightRecords = {3}
  /\ WrittenByThisRun(1) /\ WrittenByThisRun(2)

\* The SyncStatus writes of a kind issued so far, as positions of the log.
WritesOfKind(kind) ==
  {k \in 1..Len(overlap.statusWrites) : overlap.statusWrites[k].kind = kind}

\* The run that issued the latest SyncStatus write of a kind.
LastWriter(kind) ==
  overlap.statusWrites[CHOOSE k \in WritesOfKind(kind) :
                         \A other \in WritesOfKind(kind) : other <= k].run

\* C21: when two runs overlap, each field of RunStatus is the one of the
\* latest write that set it, whichever run issued it: lastError is null after
\* a start or success write even when the other run has failed, and the
\* attempt time and the success fields may come from different runs; every
\* run appends its own history entry for each record it has written.
C21_StatusIsLastWritePerField ==
  LET log == overlap.statusWrites
  IN /\ log # <<>> => (syncStatus.lastError # None <=> log[Len(log)].kind = "error")
     /\ WritesOfKind("attempt") # {}
          => syncStatus.lastAttemptedSyncAt
               = Some(overlap.run[LastWriter("attempt")].startedAt)
     /\ WritesOfKind("success") # {}
          => /\ syncStatus.lastSuccessfulSyncAt
                  = Some(overlap.run[LastWriter("success")].now)
             /\ syncStatus.lastRefs = Some(OverlapRefs(LastWriter("success")))
     /\ \A r \in OverlapRuns : \A m \in overlap.run[r].written :
          HistoryCount(m, overlap.run[r].now) = 1

\* Both runs have ended, one failed and one succeeded: RunStatus shows no
\* error, the attempt time of the failed run next to the success time of the
\* other, and every record has a history entry from both runs.
C21_Witness ==
  \E r \in OverlapRuns : \E q \in OverlapRuns \ {r} :
    /\ overlap.run[r].outcome = "threw"
    /\ overlap.run[q].outcome = "returned"
    /\ syncStatus.lastError = None
    /\ syncStatus.lastAttemptedSyncAt = Some(overlap.run[r].startedAt)
    /\ syncStatus.lastSuccessfulSyncAt = Some(overlap.run[q].now)
    /\ \A m \in OverlapIds :
         /\ HistoryCount(m, overlap.run[r].now) = 1
         /\ HistoryCount(m, overlap.run[q].now) = 1

\* The canonical record of the last scoring.
ScoredRecord == IF applied.fn = "buildAndScore" THEN applied.record ELSE applied.market

\* C22: a record with no end date (absent or unparseable upstream) never
\* receives the too_short_horizon flag nor its penalty, for any configured
\* min_days_to_expiry, and always receives missing_end_date.
C22_NoHorizonPenaltyWithoutEndDate ==
  (applied.fn \in {"scoreMarket", "buildAndScore"} /\ ScoredRecord.endDate = None) =>
    /\ ~HasFlag(applied.result, "too_short_horizon")
    /\ HasFlag(applied.result, "missing_end_date")
    /\ applied.result.components.penalties
         = ((IF ScoredRecord.restricted THEN ConfiguredPenalty(applied.config, "restricted")
             ELSE 0)
            + (IF ScoredRecord.tags = <<>>
               THEN ConfiguredPenalty(applied.config, "missing_tags") ELSE 0)) * SCALE

\* An end date upstream that is no date, scored under a minimum horizon of two
\* days with a penalty for short horizons.
C22_Witness ==
  /\ applied.fn = "buildAndScore"
  /\ "endDate" \in DOMAIN applied.market
  /\ applied.market.endDate = JStr("soon")
  /\ applied.record.endDate = None
  /\ cfg(applied.config, "min_days_to_expiry", 0) = 2
  /\ ConfiguredPenalty(applied.config, "too_short_horizon") = -7
  /\ HasFlag(applied.result, "missing_end_date")
  /\ ~HasFlag(applied.result, "too_short_horizon")

\* The threshold configured for a flag: the config's entry, else 0.
ConfiguredThreshold(conf, key) ==
  LET overrides == cfg(conf, "flags_thresholds", NoFields)
  IN IF key \in DOMAIN overrides THEN overrides[key] ELSE 0

\* C23: low_volume24h is emitted exactly when volume24h is below min_volume24h,
\* and low_liquidity exactly when liquidity is below min_liquidity, each decided
\* from that metric alone.
C23_FlagPerMetric ==
  applied.fn = "scoreMarket" =>
    /\ HasFlag(applied.result, "low_volume24h")
         <=> applied.market.volume24h < ConfiguredThreshold(applied.config, "min_volume24h")
    /\ HasFlag(applied.result, "low_liquidity")
         <=> applied.market.liquidity < ConfiguredThreshold(applied.config, "min_liquidity")

\* The value of a tunable of a group in a config object, if it has one.
Tunable(conf, group, key) ==
  IF group \in DOMAIN conf /\ key \in DOMAIN conf[group] THEN Some(conf[group][key])
  ELSE None

TunableKeys ==
  {"resolutionIntegrity", "liquidityMicrostructure", "modelability", "participationQuality",
   "strategicFit", "restricted", "missing_tags", "too_short_horizon", "min_liquidity",
   "min_volume24h", "min_open_interest"}

\* C24: the effective config is the field-by-field merge of the file and the
\* stored override: every weight, penalty and threshold, and the ref
\* percentile, is the override's value when the override provides it and the
\* file's value otherwise.
C24_MergeIsFieldByField ==
  applied.fn = "mergeScoreConfig" =>
    LET row == IF applied.dbConfig = None THEN NoFields ELSE applied.dbConfig[1]
        FieldOk(rowGroup, fileGroup, key) ==
          Tunable(applied.result, fileGroup, key)
            = IF Tunable(row, rowGroup, key) # None THEN Tunable(row, rowGroup, key)
              ELSE Tunable(applied.fileConfig, fileGroup, key)
    IN /\ \A key \in TunableKeys :
            /\ FieldOk("weights", "weights", key)
            /\ FieldOk("penalties", "penalties", key)
            /\ FieldOk("flagsThresholds", "flags_thresholds", key)
       /\ applied.result.ref_percentile
            = IF "refPercentile" \in DOMAIN row THEN Some(row.refPercentile)
              ELSE applied.fileConfig.ref_percentile

\* The finite numbers the payloads hold under the candidate fields of a metric.
CandidateNumbers(market, event, childKeys, parentKeys) ==
  {market[key].n : key \in {k \in keySet(childKeys) \cap DOMAIN market :
                              market[k].t = "number"}}
  \cup {event[key].n : key \in {k \in keySet(parentKeys) \cap DOMAIN event :
                                 event[k].t = "number"}}

\* C25: every canonical record has liquidity, volume24h and openInterest of at
\* least 0, whatever the upstream values (negative, non-numeric, missing), and
\* a metric is 0 only when no candidate field holds a number other than 0.
C25_MetricsNonNegative ==
  applied.fn = "buildAndScore" =>
    /\ applied.record.liquidity >= 0
    /\ applied.record.volume24h >= 0
    /\ applied.record.openInterest >= 0
    /\ applied.record.liquidity = 0
         => CandidateNumbers(applied.market, applied.event, LiquidityKeys, <<"liquidity">>)
              \subseteq {0}
    /\ applied.record.openInterest = 0
         => CandidateNumbers(applied.market, applied.event, openInterestKeys,
                             <<"openInterest">>) \subseteq {0}

\* C26: the normalized tags have lower-cased slugs and contain no slug twice,
\* even when upstream lists a tag several times, in different letter case or
\* in different shapes; entries of unrecognized shape are dropped.
C26_TagsLowerCasedAndUnique ==
  applied.fn = "normalizeTags" =>
    /\ \A i \in 1..Len(applied.result) : applied.result[i] \in {"politics", "sports"}
    /\ \A i, j \in 1..Len(applied.result) : applied.result[i] = applied.result[j] => i = j
    /\ Len(applied.result)
         <= Cardinality({i \in 1..Len(applied.tags) : applied.tags[i].shape # "other"})

\* The payload is null or not an object.
NotAnObject(payload) == "t" \in DOMAIN payload

C28_SnapshotIsSingleFlight ==
  [][/\ activeRuns'.snapshot <= 1
     /\ inFlight' <=> activeRuns'.snapshot = 1
     /\ activeRuns'.snapshot > activeRuns.snapshot
          => ~inFlight /\ inFlight' /\ lastSnapshot' = "started"
     /\ (lastSnapshot' = "joined" /\ lastSnapshot # "joined")
          => inFlight /\ inFlight' /\ activeRuns' = activeRuns
     /\ activeRuns'.snapshot < activeRuns.snapshot
          => /\ ~inFlight'
             /\ lastSnapshot' \in {"noMarkets", "rejects"} => cache' = cache
     /\ (cache'.present /\ cache'.fresh /\ cache' # cache)
          => /\ activeRuns'.snapshot < activeRuns.snapshot
             /\ lastSnapshot' \in {"markets", "kalshiMarkets"}]_vars

\* A call that misses the cache has joined the pending run while another
\* caller's run is in progress too.
C28_Witness ==
  /\ inFlight
  /\ lastSnapshot = "joined"
  /\ activeRuns.snapshot = 1
  /\ ~(cache.present /\ cache.fresh)

\* The run has written its terminal status (the success fields, or lastError
\* in catch) and is inside finally, between $disconnect and pool.end.
TerminalStatusWritten ==
  /\ pc = "poolEnd"
  /\ thrown # StoreError("syncStatus.update(lastError)")

\* C29: once a run has written its terminal status and started releasing the
\* connection pool, none of its market, score, score-history or annotation
\* writes is still pending, also when one record's write failed while other
\* records of the batch were being written.
C29_NoWritePendingAfterTerminalStatus ==
  TerminalStatusWritten => InFlightRecords = {}

\* C30: the batched write phase terminates for every working set and every
\* configured sync_batch_size: whenever the loop is about to run an iteration,
\* that iteration advances the index strictly.
C30_BatchLoopAdvances ==
  pc = "writing" => index + batchSizeOf(config) > index

====
